---- MODULE Spec2Model ----
(***************************************************************************)
(* Model of package quick of wg-quick-op: the wg-quick text codec          *)
(* (Config.UnmarshalText, Config.MarshalText, ParseKey), GetConfig and the *)
(* field grammars they call.                                               *)
(*                                                                         *)
(* A Go string / []byte is a sequence of one-character strings, so that    *)
(* trimming, splitting, number parsing and base64 are computed, character  *)
(* by character, the way the library functions compute them.  A Go pointer *)
(* is a sequence of length 0 (nil) or 1 (the value pointed to).            *)
(***************************************************************************)
EXTENDS Integers, Sequences, FiniteSets, TLC

(***************************************************************************)
(* Bounds of the model.                                                    *)
(***************************************************************************)
\* the longest input text, in lines
MaxLines == 4

(***************************************************************************)
(* package strings                                                         *)
(***************************************************************************)
WhiteSpace == {" ", "\t", "\n", "\r", "\f"}

RECURSIVE TrimLeft(_)
TrimLeft(s) ==
    IF s # <<>> /\ Head(s) \in WhiteSpace THEN TrimLeft(Tail(s)) ELSE s

RECURSIVE TrimRight(_)
TrimRight(s) ==
    IF s # <<>> /\ s[Len(s)] \in WhiteSpace
    THEN TrimRight(SubSeq(s, 1, Len(s) - 1))
    ELSE s

\* strings.TrimSpace
TrimSpace(s) == TrimRight(TrimLeft(s))

\* strings.IndexByte: the first position of c in s, 0 when there is none
\* (positions are 1-based here, Go's are 0-based with -1 for none)
IndexByte(s, c) ==
    IF \E i \in 1..Len(s) : s[i] = c
    THEN CHOOSE i \in 1..Len(s) : s[i] = c /\ \A j \in 1..(i - 1) : s[j] # c
    ELSE 0

\* strings.LastIndexByte
LastIndexByte(s, c) ==
    IF \E i \in 1..Len(s) : s[i] = c
    THEN CHOOSE i \in 1..Len(s) : s[i] = c /\ \A j \in (i + 1)..Len(s) : s[j] # c
    ELSE 0

\* strings.Split(s, sep) for a one-character separator: always at least one part
RECURSIVE Split(_, _)
Split(s, sep) ==
    LET i == IndexByte(s, sep)
    IN  IF i = 0
        THEN <<s>>
        ELSE <<SubSeq(s, 1, i - 1)>> \o Split(SubSeq(s, i + 1, Len(s)), sep)

\* strings.Join(parts, sep), sep a string
RECURSIVE Join(_, _)
Join(parts, sep) ==
    IF parts = <<>> THEN <<>>
    ELSE IF Len(parts) = 1 THEN parts[1]
    ELSE parts[1] \o sep \o Join(Tail(parts), sep)

UpperCase == <<"A", "B", "C", "D", "E", "F", "G", "H", "I", "J", "K", "L", "M",
               "N", "O", "P", "Q", "R", "S", "T", "U", "V", "W", "X", "Y", "Z">>
LowerCase == <<"a", "b", "c", "d", "e", "f", "g", "h", "i", "j", "k", "l", "m",
               "n", "o", "p", "q", "r", "s", "t", "u", "v", "w", "x", "y", "z">>
Digits == <<"0", "1", "2", "3", "4", "5", "6", "7", "8", "9">>

\* strings.ToLower (ASCII)
ToLower(s) ==
    [i \in 1..Len(s) |->
        IF \E k \in 1..26 : UpperCase[k] = s[i]
        THEN LowerCase[CHOOSE k \in 1..26 : UpperCase[k] = s[i]]
        ELSE s[i]]

(***************************************************************************)
(* package strconv.  A result is [ok, v]: ok = FALSE is a returned error.  *)
(***************************************************************************)
IsDigit(c) == \E k \in 1..10 : Digits[k] = c
DigitVal(c) == (CHOOSE k \in 1..10 : Digits[k] = c) - 1

\* the value of a string of decimal digits
RECURSIVE DecVal(_)
DecVal(s) ==
    IF s = <<>> THEN 0
    ELSE DecVal(SubSeq(s, 1, Len(s) - 1)) * 10 + DigitVal(s[Len(s)])

\* strconv.ParseInt(s, 10, 64): an optional sign, then one or more digits and
\* nothing else.  (A value outside int64 is a range error; the texts of this
\* model stay below ten digits.)
ParseInt(s) ==
    LET signed == s # <<>> /\ Head(s) \in {"+", "-"}
        body   == IF signed THEN Tail(s) ELSE s
    IN  IF body = <<>> \/ \E i \in 1..Len(body) : ~IsDigit(body[i])
        THEN [ok |-> FALSE, v |-> 0]
        ELSE [ok |-> TRUE,
              v  |-> IF signed /\ Head(s) = "-" THEN 0 - DecVal(body) ELSE DecVal(body)]

\* strconv.Itoa / fmt's %v of an int
RECURSIVE UItoa(_)
UItoa(n) ==
    IF n < 10 THEN <<Digits[n + 1]>>
    ELSE UItoa(n \div 10) \o <<Digits[(n % 10) + 1]>>

Itoa(n) == IF n < 0 THEN <<"-">> \o UItoa(0 - n) ELSE UItoa(n)

\* strconv.ParseBool
ParseBool(s) ==
    IF s \in {<<"1">>, <<"t">>, <<"T">>, <<"t", "r", "u", "e">>,
              <<"T", "R", "U", "E">>, <<"T", "r", "u", "e">>}
    THEN [ok |-> TRUE, v |-> TRUE]
    ELSE IF s \in {<<"0">>, <<"f">>, <<"F">>, <<"f", "a", "l", "s", "e">>,
                   <<"F", "A", "L", "S", "E">>, <<"F", "a", "l", "s", "e">>}
    THEN [ok |-> TRUE, v |-> FALSE]
    ELSE [ok |-> FALSE, v |-> FALSE]

\* fmt's %v of a bool
FormatBool(b) == IF b THEN <<"t", "r", "u", "e">> ELSE <<"f", "a", "l", "s", "e">>

(***************************************************************************)
(* encoding/base64, StdEncoding                                            *)
(***************************************************************************)
B64Alphabet == UpperCase \o LowerCase \o Digits \o <<"+", "/">>
B64Chars == {B64Alphabet[k] : k \in 1..64}
B64Val == [c \in B64Chars |-> (CHOOSE k \in 1..64 : B64Alphabet[k] = c) - 1]

\* the bytes of one quantum of four characters; q[3], q[4] may be the padding
B64Quantum(q) ==
    LET v3 == IF q[3] = "=" THEN 0 ELSE B64Val[q[3]]
        v4 == IF q[4] = "=" THEN 0 ELSE B64Val[q[4]]
        n  == B64Val[q[1]] * 262144 + B64Val[q[2]] * 4096 + v3 * 64 + v4
        b  == <<n \div 65536, (n \div 256) % 256, n % 256>>
    IN  IF q[3] = "=" THEN SubSeq(b, 1, 1)
        ELSE IF q[4] = "=" THEN SubSeq(b, 1, 2)
        ELSE b

RECURSIVE B64Bytes(_)
B64Bytes(s) ==
    IF s = <<>> THEN <<>>
    ELSE B64Quantum(SubSeq(s, 1, 4)) \o B64Bytes(SubSeq(s, 5, Len(s)))

\* StdEncoding.DecodeString: whole quanta of four characters of the alphabet,
\* padding only as the last one or two characters of the last quantum
\* (the trailing bits of a padded quantum are not checked: not Strict)
B64Decode(s) ==
    LET n    == Len(s)
        pads == IF n >= 2 /\ s[n] = "=" /\ s[n - 1] = "=" THEN 2
                ELSE IF n >= 1 /\ s[n] = "=" THEN 1 ELSE 0
    IN  IF n % 4 # 0 \/ \E i \in 1..(n - pads) : s[i] \notin B64Chars
        THEN [ok |-> FALSE, v |-> <<>>]
        ELSE [ok |-> TRUE, v |-> B64Bytes(s)]

\* the characters of one group of up to three bytes
B64Group(b) ==
    LET b2 == IF Len(b) >= 2 THEN b[2] ELSE 0
        b3 == IF Len(b) >= 3 THEN b[3] ELSE 0
        n  == b[1] * 65536 + b2 * 256 + b3
        c  == <<B64Alphabet[(n \div 262144) + 1], B64Alphabet[((n \div 4096) % 64) + 1],
                B64Alphabet[((n \div 64) % 64) + 1], B64Alphabet[(n % 64) + 1]>>
    IN  IF Len(b) = 1 THEN SubSeq(c, 1, 2) \o <<"=", "=">>
        ELSE IF Len(b) = 2 THEN SubSeq(c, 1, 3) \o <<"=">>
        ELSE c

\* StdEncoding.EncodeToString
RECURSIVE B64Encode(_)
B64Encode(b) ==
    IF b = <<>> THEN <<>>
    ELSE IF Len(b) <= 3 THEN B64Group(b)
    ELSE B64Group(SubSeq(b, 1, 3)) \o B64Encode(SubSeq(b, 4, Len(b)))

(***************************************************************************)
(* package net, IPv4 only: an IP is its four bytes, an IPNet is the IP     *)
(* with the prefix length of its mask (every mask here is a CIDRMask).     *)
(***************************************************************************)
\* one decimal field of a dotted quad: 1..3 digits, no leading zero, <= 255
IPv4Field(f) ==
    /\ Len(f) \in 1..3
    /\ \A i \in 1..Len(f) : IsDigit(f[i])
    /\ (Len(f) > 1 => f[1] # "0")
    /\ DecVal(f) <= 255

\* netip.ParseAddr for a dotted quad
ParseIPv4(s) ==
    LET f == Split(s, ".")
    IN  IF Len(f) = 4 /\ \A i \in 1..4 : IPv4Field(f[i])
        THEN [ok |-> TRUE, ip |-> [i \in 1..4 |-> DecVal(f[i])]]
        ELSE [ok |-> FALSE, ip |-> <<>>]

\* net.ParseIP: ok = FALSE is the nil IP
ParseIP(s) == ParseIPv4(s)

\* net.IP.String
FormatIP(ip) ==
    Itoa(ip[1]) \o <<".">> \o Itoa(ip[2]) \o <<".">> \o Itoa(ip[3]) \o <<".">> \o Itoa(ip[4])

\* net.ParseCIDR: address, the first "/", a decimal prefix length 0..32
\* (prefix lengths of this model's texts stay below ten digits)
ParseCIDR(s) ==
    LET i    == IndexByte(s, "/")
        addr == ParseIPv4(SubSeq(s, 1, i - 1))
        mask == SubSeq(s, i + 1, Len(s))
    IN  IF /\ i > 0
           /\ addr.ok
           /\ Len(mask) \in 1..9
           /\ \A k \in 1..Len(mask) : IsDigit(mask[k])
           /\ DecVal(mask) <= 32
        THEN [ok |-> TRUE, ip |-> addr.ip, ones |-> DecVal(mask)]
        ELSE [ok |-> FALSE, ip |-> <<>>, ones |-> 0]

\* net.IPNet.String: the IP as stored (not masked), "/", the prefix length
FormatIPNet(n) == FormatIP(n.IP) \o <<"/">> \o Itoa(n.Ones)

\* The address a host name resolves to when the resolver answers.
ResolvedIP == <<192, 0, 2, 1>>

\* net.ResolveUDPAddr("", s): host ":" port, split at the last colon.  An
\* empty port is port 0 and a numeric port is itself; any other port is a
\* service name and is looked up.  An empty host is the wildcard (nil IP), a
\* literal host is itself, any other host is looked up.  `lookup` is the
\* answer of the system's resolver to whatever has to be looked up
\* (TRUE: found, FALSE: the lookup fails).
ResolveUDPAddr(s, lookup) ==
    LET i       == LastIndexByte(s, ":")
        host    == SubSeq(s, 1, i - 1)
        port    == SubSeq(s, i + 1, Len(s))
        numeric == Len(port) <= 9 /\ \A k \in 1..Len(port) : IsDigit(port[k])
        lit     == ParseIPv4(host)
        portNo  == IF numeric THEN DecVal(port) ELSE 53
        ip      == IF host = <<>> THEN <<>> ELSE IF lit.ok THEN lit.ip ELSE ResolvedIP
    IN  IF \/ i = 0
           \/ IndexByte(host, ":") > 0
           \/ (numeric /\ DecVal(port) > 65535)
           \/ (~numeric /\ ~lookup)
           \/ (host # <<>> /\ ~lit.ok /\ ~lookup)
        THEN [ok |-> FALSE, addr |-> <<>>]
        ELSE [ok |-> TRUE, addr |-> [IP |-> ip, Port |-> portNo]]

\* net.UDPAddr.String
FormatUDPAddr(a) ==
    (IF a.IP = <<>> THEN <<>> ELSE FormatIP(a.IP)) \o <<":">> \o Itoa(a.Port)

(***************************************************************************)
(* The Config structure                                                    *)
(***************************************************************************)
\* wgtypes.KeyLen: a key is an array of KeyLen bytes
KeyLen == 32

\* the zero value of wgtypes.Key
ZeroKey == [i \in 1..KeyLen |-> 0]

\* the zero value of wgtypes.PeerConfig
ZeroPeer ==
    [PublicKey |-> ZeroKey, PresharedKey |-> <<>>, Endpoint |-> <<>>,
     PersistentKeepaliveInterval |-> <<>>, AllowedIPs |-> <<>>]

\* the zero value of Config, &Config{}
ZeroConfig ==
    [PrivateKey |-> <<>>, ListenPort |-> <<>>, Peers |-> <<>>,
     Address |-> <<>>, DNS |-> <<>>, MTU |-> 0, Table |-> <<>>,
     PreUp |-> <<>>, PostUp |-> <<>>, PreDown |-> <<>>, PostDown |-> <<>>,
     RouteProtocol |-> 0, RouteMetric |-> 0, AddressLabel |-> <<>>,
     SaveConfig |-> FALSE, WgBin |-> <<>>]

\* newConfig: Table points to a fresh zero int
newConfig == [ZeroConfig EXCEPT !.Table = <<0>>]

(***************************************************************************)
(* ParseKey                                                                *)
(***************************************************************************)
\* copy(dst, src) into a zeroed array of KeyLen bytes: min(len) bytes copied
CopyKey(src) ==
    [i \in 1..KeyLen |-> IF i <= Len(src) THEN src[i] ELSE 0]

\* ParseKey: the base64 error if any, else the decoded bytes copied into a key
ParseKey(key) ==
    LET pkeySlice == B64Decode(key)
    IN  IF ~pkeySlice.ok
        THEN [ok |-> FALSE, key |-> ZeroKey]
        ELSE [ok |-> TRUE, key |-> CopyKey(pkeySlice.v)]

\* serializeKey, and wgtypes.Key.String
serializeKey(key) == B64Encode(key)

(***************************************************************************)
(* The directive names and section headers, as strings                     *)
(***************************************************************************)
sAddress == <<"A", "d", "d", "r", "e", "s", "s">>
sDNS == <<"D", "N", "S">>
sMTU == <<"M", "T", "U">>
sTable == <<"T", "a", "b", "l", "e">>
sListenPort == <<"L", "i", "s", "t", "e", "n", "P", "o", "r", "t">>
sPreUp == <<"P", "r", "e", "U", "p">>
sPostUp == <<"P", "o", "s", "t", "U", "p">>
sPreDown == <<"P", "r", "e", "D", "o", "w", "n">>
sPostDown == <<"P", "o", "s", "t", "D", "o", "w", "n">>
sSaveConfig == <<"S", "a", "v", "e", "C", "o", "n", "f", "i", "g">>
sPrivateKey == <<"P", "r", "i", "v", "a", "t", "e", "K", "e", "y">>
sWgBin == <<"W", "g", "B", "i", "n">>
sPublicKey == <<"P", "u", "b", "l", "i", "c", "K", "e", "y">>
sPresharedKey == <<"P", "r", "e", "s", "h", "a", "r", "e", "d", "K", "e", "y">>
sAllowedIPs == <<"A", "l", "l", "o", "w", "e", "d", "I", "P", "s">>
sEndpoint == <<"E", "n", "d", "p", "o", "i", "n", "t">>
sPersistentKeepalive == <<"P", "e", "r", "s", "i", "s", "t", "e", "n", "t", "K", "e", "e", "p", "a", "l", "i", "v", "e">>
sInterfaceHeader == <<"[", "I", "n", "t", "e", "r", "f", "a", "c", "e", "]">>
sPeerHeader == <<"[", "P", "e", "e", "r", "]">>
sOff == <<"o", "f", "f">>

(***************************************************************************)
(* parseInterfaceLine and parsePeerLine.  A result is [err, cfg]: err is   *)
(* "" for a nil error and else names the error; cfg is the structure as    *)
(* the call leaves it (a list that failed half way keeps what it appended).*)
(***************************************************************************)
\* the loop over strings.Split(rhs, ","): net.ParseCIDR of each trimmed
\* element, appended as net.IPNet{IP: ip, Mask: cidr.Mask}
RECURSIVE AppendCIDRs(_, _)
AppendCIDRs(list, parts) ==
    IF parts = <<>> THEN [ok |-> TRUE, v |-> list]
    ELSE LET r == ParseCIDR(TrimSpace(Head(parts)))
         IN  IF ~r.ok THEN [ok |-> FALSE, v |-> list]
             ELSE AppendCIDRs(Append(list, [IP |-> r.ip, Ones |-> r.ones]), Tail(parts))

\* AppendIPs assigning a list of the one element where line 316 appends
RECURSIVE AppendIPsOverwrite(_, _)
AppendIPsOverwrite(list, parts) ==
    IF parts = <<>> THEN [ok |-> TRUE, v |-> list]
    ELSE LET r == ParseIP(TrimSpace(Head(parts)))
         IN  IF ~r.ok THEN [ok |-> FALSE, v |-> list]
             ELSE AppendIPsOverwrite(<<r.ip>>, Tail(parts))

\* the loop over strings.Split(rhs, ","): net.ParseIP of each trimmed element
RECURSIVE AppendIPs(_, _)
AppendIPs(list, parts) ==
    IF parts = <<>> THEN [ok |-> TRUE, v |-> list]
    ELSE LET r == ParseIP(TrimSpace(Head(parts)))
         IN  IF ~r.ok THEN [ok |-> FALSE, v |-> list]
             ELSE AppendIPs(Append(list, r.ip), Tail(parts))

\* parseTable with "off" compared as written, without strings.ToLower
parseTableCaseSensitive(cfg, rhs) ==
    IF rhs = sOff
    THEN [err |-> "", cfg |-> [cfg EXCEPT !.Table = <<>>]]
    ELSE LET tbl == ParseInt(rhs)
         IN  IF ~tbl.ok THEN [err |-> "syntax", cfg |-> cfg]
             ELSE [err |-> "", cfg |-> [cfg EXCEPT !.Table = <<tbl.v>>]]

\* case "Table" of parseInterfaceLine
parseTable(cfg, rhs) ==
    IF ToLower(rhs) = sOff
    THEN [err |-> "", cfg |-> [cfg EXCEPT !.Table = <<>>]]
    ELSE LET tbl == ParseInt(rhs)
         IN  IF ~tbl.ok THEN [err |-> "syntax", cfg |-> cfg]
             ELSE [err |-> "", cfg |-> [cfg EXCEPT !.Table = <<tbl.v>>]]

parseInterfaceLine(cfg, lhs, rhs) ==
    IF lhs = sAddress THEN
        LET r == AppendCIDRs(cfg.Address, Split(rhs, ","))
        IN  [err |-> IF r.ok THEN "" ELSE "cidr", cfg |-> [cfg EXCEPT !.Address = r.v]]
    ELSE IF lhs = sDNS THEN
        LET r == AppendIPs(cfg.DNS, Split(rhs, ","))
        IN  [err |-> IF r.ok THEN "" ELSE "cannot parse IP", cfg |-> [cfg EXCEPT !.DNS = r.v]]
    ELSE IF lhs = sMTU THEN
        LET mtu == ParseInt(rhs)
        IN  IF ~mtu.ok THEN [err |-> "syntax", cfg |-> cfg]
            ELSE [err |-> "", cfg |-> [cfg EXCEPT !.MTU = mtu.v]]
    ELSE IF lhs = sTable THEN parseTable(cfg, rhs)
    ELSE IF lhs = sListenPort THEN
        LET port == ParseInt(rhs)
        IN  IF ~port.ok THEN [err |-> "syntax", cfg |-> cfg]
            ELSE [err |-> "", cfg |-> [cfg EXCEPT !.ListenPort = <<port.v>>]]
    ELSE IF lhs = sPreUp THEN [err |-> "", cfg |-> [cfg EXCEPT !.PreUp = Append(@, rhs)]]
    ELSE IF lhs = sPostUp THEN [err |-> "", cfg |-> [cfg EXCEPT !.PostUp = Append(@, rhs)]]
    ELSE IF lhs = sPreDown THEN [err |-> "", cfg |-> [cfg EXCEPT !.PreDown = Append(@, rhs)]]
    ELSE IF lhs = sPostDown THEN [err |-> "", cfg |-> [cfg EXCEPT !.PostDown = Append(@, rhs)]]
    ELSE IF lhs = sSaveConfig THEN
        LET save == ParseBool(rhs)
        IN  IF ~save.ok THEN [err |-> "syntax", cfg |-> cfg]
            ELSE [err |-> "", cfg |-> [cfg EXCEPT !.SaveConfig = save.v]]
    ELSE IF lhs = sPrivateKey THEN
        LET key == ParseKey(rhs)
        IN  IF ~key.ok THEN [err |-> "cannot decode key", cfg |-> cfg]
            ELSE [err |-> "", cfg |-> [cfg EXCEPT !.PrivateKey = <<key.key>>]]
    ELSE IF lhs = sWgBin THEN [err |-> "", cfg |-> [cfg EXCEPT !.WgBin = rhs]]
    ELSE [err |-> "unknown directive", cfg |-> cfg]

\* parsePresharedKey without the check of lines 383-385: the last key wins
parsePresharedKeyOverwrite(peerCfg, rhs) ==
    LET key == ParseKey(rhs)
    IN  IF ~key.ok THEN [err |-> "cannot decode key", cfg |-> peerCfg]
        ELSE [err |-> "", cfg |-> [peerCfg EXCEPT !.PresharedKey = <<key.key>>]]

\* case "PresharedKey" of parsePeerLine: the key is parsed first, then a key
\* that is already set is refused
parsePresharedKey(peerCfg, rhs) ==
    LET key == ParseKey(rhs)
    IN  IF ~key.ok THEN [err |-> "cannot decode key", cfg |-> peerCfg]
        ELSE IF peerCfg.PresharedKey # <<>>
        THEN [err |-> "preshared key already defined", cfg |-> peerCfg]
        ELSE [err |-> "", cfg |-> [peerCfg EXCEPT !.PresharedKey = <<key.key>>]]

\* time.Duration(t * int64(time.Second)): a Duration is kept as whole seconds
\* s and the nanoseconds ns below time.Second (int64 overflow needs a |t| of
\* eleven digits; the texts of this model stay below ten)
SecondsToDuration(t) == [s |-> t, ns |-> 0]

\* toSeconds: int(duration / time.Second), truncated towards zero
toSeconds(duration) ==
    IF duration.s < 0 /\ duration.ns > 0 THEN duration.s + 1 ELSE duration.s

parsePeerLine(peerCfg, lhs, rhs, lookup) ==
    IF lhs = sPublicKey THEN
        LET key == ParseKey(rhs)
        IN  IF ~key.ok THEN [err |-> "cannot decode key", cfg |-> peerCfg]
            ELSE [err |-> "", cfg |-> [peerCfg EXCEPT !.PublicKey = key.key]]
    ELSE IF lhs = sPresharedKey THEN parsePresharedKey(peerCfg, rhs)
    ELSE IF lhs = sAllowedIPs THEN
        LET r == AppendCIDRs(peerCfg.AllowedIPs, Split(rhs, ","))
        IN  [err |-> IF r.ok THEN "" ELSE "cidr",
             cfg |-> [peerCfg EXCEPT !.AllowedIPs = r.v]]
    ELSE IF lhs = sEndpoint THEN
        LET addr == ResolveUDPAddr(rhs, lookup)
        IN  IF ~addr.ok THEN [err |-> "resolve", cfg |-> peerCfg]
            ELSE [err |-> "", cfg |-> [peerCfg EXCEPT !.Endpoint = <<addr.addr>>]]
    ELSE IF lhs = sPersistentKeepalive THEN
        LET t == ParseInt(rhs)
        IN  IF ~t.ok THEN [err |-> "syntax", cfg |-> peerCfg]
            ELSE [err |-> "",
                  cfg |-> [peerCfg EXCEPT !.PersistentKeepaliveInterval =
                                              <<SecondsToDuration(t.v)>>]]
    ELSE [err |-> "unknown directive", cfg |-> peerCfg]

(***************************************************************************)
(* MarshalText: cfgTemplate (wgtypeTemplateSpec) executed on cfg           *)
(***************************************************************************)
sKeySep == <<" ", "=", " ">>
sNewline == <<"\n">>

\* fmt's %v of a []string: the elements between brackets, one space apart
FormatStrings(list) == <<"[">> \o Join(list, <<" ">>) \o <<"]">>

\* "\n" key " = " value
TemplateLine(key, value) == sNewline \o key \o sKeySep \o value

\* {{ if .X }}{{ "\n" }}X = ...{{ end }}: nothing when the field is not truthy
TemplateIf(truthy, key, value) == IF truthy THEN TemplateLine(key, value) ELSE <<>>

\* {{ range .X }} "\n" X = {{ . }} {{ end }}: items are the elements as printed
RECURSIVE TemplateRange(_, _)
TemplateRange(key, items) ==
    IF items = <<>> THEN <<>>
    ELSE TemplateLine(key, Head(items)) \o TemplateRange(key, Tail(items))

\* {{ range $i, $el := .AllowedIPs }}{{ if $i }}, {{ end }}{{ $el }}{{ end }}
TemplateAllowedIPs(list) ==
    Join([i \in 1..Len(list) |-> FormatIPNet(list[i])], <<",", " ">>)

\* the body of {{ range .Peers }} for one peer
TemplatePeer(p) ==
    sNewline \o sNewline \o sPeerHeader
    \o TemplateLine(sPublicKey, serializeKey(p.PublicKey))
    \o TemplateLine(sAllowedIPs, TemplateAllowedIPs(p.AllowedIPs))
    \o TemplateIf(p.PresharedKey # <<>>, sPresharedKey,
                  IF p.PresharedKey # <<>> THEN serializeKey(p.PresharedKey[1]) ELSE <<>>)
    \o TemplateIf(p.PersistentKeepaliveInterval # <<>>, sPersistentKeepalive,
                  IF p.PersistentKeepaliveInterval # <<>>
                  THEN Itoa(toSeconds(p.PersistentKeepaliveInterval[1])) ELSE <<>>)
    \o TemplateIf(p.Endpoint # <<>>, sEndpoint,
                  IF p.Endpoint # <<>> THEN FormatUDPAddr(p.Endpoint[1]) ELSE <<>>)

RECURSIVE TemplatePeers(_)
TemplatePeers(peers) ==
    IF peers = <<>> THEN <<>>
    ELSE TemplatePeer(Head(peers)) \o TemplatePeers(Tail(peers))

\* {{ if .Table }}{{ "\n" }}Table = {{ .Table }}{{ end }}: .Table is a *int,
\* which is truthy when it is not nil and prints as the int it points to
TemplateTable(cfg) ==
    TemplateIf(cfg.Table # <<>>, sTable,
               IF cfg.Table # <<>> THEN Itoa(cfg.Table[1]) ELSE <<>>)

\* MarshalText: [ok, text].  wgKey (serializeKey) dereferences .PrivateKey: on
\* a nil key the call panics, the template turns the panic into an error
\* and MarshalText returns it (String then panics).
MarshalText(cfg) ==
    IF cfg.PrivateKey = <<>> THEN [ok |-> FALSE, text |-> <<>>]
    ELSE [ok   |-> TRUE,
          text |-> sInterfaceHeader
                   \o TemplateRange(sAddress, [i \in 1..Len(cfg.Address) |-> FormatIPNet(cfg.Address[i])])
                   \o TemplateRange(sDNS, [i \in 1..Len(cfg.DNS) |-> FormatIP(cfg.DNS[i])])
                   \o TemplateLine(sPrivateKey, serializeKey(cfg.PrivateKey[1]))
                   \o TemplateIf(cfg.ListenPort # <<>>, sListenPort,
                                 IF cfg.ListenPort # <<>> THEN Itoa(cfg.ListenPort[1]) ELSE <<>>)
                   \o TemplateIf(cfg.MTU # 0, sMTU, Itoa(cfg.MTU))
                   \o TemplateTable(cfg)
                   \o TemplateIf(cfg.PreUp # <<>>, sPreUp, FormatStrings(cfg.PreUp))
                   \o TemplateIf(cfg.PostUp # <<>>, sPostUp, FormatStrings(cfg.PostUp))
                   \o TemplateIf(cfg.PreDown # <<>>, sPreDown, FormatStrings(cfg.PreDown))
                   \o TemplateIf(cfg.PostDown # <<>>, sPostDown, FormatStrings(cfg.PostDown))
                   \o TemplateIf(cfg.SaveConfig, sSaveConfig, FormatBool(cfg.SaveConfig))
                   \o TemplatePeers(cfg.Peers)
                   \o sNewline]

(***************************************************************************)
(* The state: GetConfig(name) reads the file and decodes it into c; the    *)
(* caller then encodes c and decodes the encoded text into c again.        *)
(***************************************************************************)
VARIABLES
    file,       \* /etc/wireguard/<name>.conf: <<>> unreadable, else <<its bytes>>
    pc,         \* where the program is
    pass,       \* which UnmarshalText call is (or was last) running: 1, 2
    text,       \* UnmarshalText: its argument
    lines,      \* UnmarshalText: strings.Split(string(text), "\n"), the range
    no,         \* UnmarshalText: the index of the range loop (0-based)
    state,      \* UnmarshalText: the parseState
    peerCfg,    \* UnmarshalText: index into cfg.Peers peerCfg points to, 0 nil
    cfg,        \* the Config c that UnmarshalText decodes into
    err,        \* UnmarshalText's result: [kind, line], kind "" for nil
    ret,        \* GetConfig's result: [c, err], c = TRUE for the pointer to c
    out,        \* MarshalText's result: [ok, text]
    first,      \* the Config as it was encoded, before the second decode
    gue,        \* GetUnresolvedEndpoints: its locals and its result
    sync,       \* syncCmd.Run: its locals and the calls it has made
    status,     \* PeerStatus: its locals, the client and its result
    prior       \* the Config a caller decodes into again, as it was before

vars == <<file, pc, pass, text, lines, no, state, peerCfg, cfg, err, ret, out, first,
          gue, sync, status, prior>>

\* the variables of the other operations, which a decode leaves alone
others == <<gue, sync, status, prior>>

NoError == [kind |-> "", line |-> 0]

(***************************************************************************)
(* UnmarshalText                                                           *)
(***************************************************************************)
\* UnmarshalEnter without the reset of line 151
UnmarshalEnterNoReset(b) ==
    /\ cfg' = cfg
    /\ state' = "unknown"
    /\ peerCfg' = 0
    /\ text' = b
    /\ lines' = Split(b, "\n")
    /\ no' = 0
    /\ err' = NoError

\* lines 151-153 and the range expression of line 154: the locals on entry
UnmarshalEnter(b) ==
    /\ cfg' = newConfig
    /\ state' = "unknown"
    /\ peerCfg' = 0
    /\ text' = b
    /\ lines' = Split(b, "\n")
    /\ no' = 0
    /\ err' = NoError

\* the number the "missing =" error of line 169 prints for loop index n
MissingEqLine(n) == n

\* ErrorLine printing the loop index as it is, as line 169 does
ErrorLineZeroBased(n) == n

\* the number the errors of lines 177, 181 and 184 print for loop index n
ErrorLine(n) == n + 1

\* UnmarshalKeyValue with peerCfg pointing at the first peer, not the last
UnmarshalKeyValueFirstPeer(c, st, pcfg, n, ln, lookup) ==
    LET parts == Split(ln, "=")
        lhs   == TrimSpace(parts[1])
        rhs   == TrimSpace(Join(Tail(parts), <<"=">>))
    IN  IF Len(parts) < 2
        THEN [cfg |-> c, err |-> [kind |-> "missing =", line |-> MissingEqLine(n)]]
        ELSE IF st = "inter"
        THEN LET r == parseInterfaceLine(c, lhs, rhs)
             IN  [cfg |-> r.cfg,
                  err |-> IF r.err = "" THEN NoError
                          ELSE [kind |-> r.err, line |-> ErrorLine(n)]]
        ELSE IF st = "peer"
        THEN LET r == parsePeerLine(c.Peers[1], lhs, rhs, lookup)
             IN  [cfg |-> [c EXCEPT !.Peers[1] = r.cfg],
                  err |-> IF r.err = "" THEN NoError
                          ELSE [kind |-> r.err, line |-> ErrorLine(n)]]
        ELSE [cfg |-> c, err |-> [kind |-> "unknown state", line |-> ErrorLine(n)]]

\* the default case of the switch on ln (lines 167-185) for a line that is
\* no header: [cfg, err]
UnmarshalKeyValue(c, st, pcfg, n, ln, lookup) ==
    LET parts == Split(ln, "=")
        lhs   == TrimSpace(parts[1])
        rhs   == TrimSpace(Join(Tail(parts), <<"=">>))
    IN  IF Len(parts) < 2
        THEN [cfg |-> c, err |-> [kind |-> "missing =", line |-> MissingEqLine(n)]]
        ELSE IF st = "inter"
        THEN LET r == parseInterfaceLine(c, lhs, rhs)
             IN  [cfg |-> r.cfg,
                  err |-> IF r.err = "" THEN NoError
                          ELSE [kind |-> r.err, line |-> ErrorLine(n)]]
        ELSE IF st = "peer"
        THEN LET r == parsePeerLine(c.Peers[pcfg], lhs, rhs, lookup)
             IN  [cfg |-> [c EXCEPT !.Peers[pcfg] = r.cfg],
                  err |-> IF r.err = "" THEN NoError
                          ELSE [kind |-> r.err, line |-> ErrorLine(n)]]
        ELSE [cfg |-> c, err |-> [kind |-> "unknown state", line |-> ErrorLine(n)]]

\* one iteration of the range loop (lines 154-187), on line lines[no + 1]
UnmarshalLine ==
    /\ pc = "Unmarshal"
    /\ no < Len(lines)
    /\ \E lookup \in BOOLEAN :
          LET ln == TrimSpace(lines[no + 1])
          IN  IF ln = <<>> \/ ln[1] = "#"
              THEN /\ no' = no + 1
                   /\ UNCHANGED <<state, peerCfg, cfg, err, pc>>
              ELSE IF ln = sInterfaceHeader
              THEN /\ state' = "inter"
                   /\ no' = no + 1
                   /\ UNCHANGED <<peerCfg, cfg, err, pc>>
              ELSE IF ln = sPeerHeader
              THEN /\ state' = "peer"
                   /\ cfg' = [cfg EXCEPT !.Peers = Append(@, ZeroPeer)]
                   /\ peerCfg' = Len(cfg.Peers) + 1
                   /\ no' = no + 1
                   /\ UNCHANGED <<err, pc>>
              ELSE LET r == UnmarshalKeyValue(cfg, state, peerCfg, no, ln, lookup)
                   IN  /\ cfg' = r.cfg
                       /\ err' = r.err
                       /\ IF r.err.kind = ""
                          THEN no' = no + 1 /\ pc' = pc
                          ELSE no' = no /\ pc' = "UnmarshalDone"
                       /\ UNCHANGED <<state, peerCfg>>
    /\ UNCHANGED <<file, pass, text, lines, ret, out, first, others>>

\* line 188: the range is exhausted, return nil
UnmarshalReturn ==
    /\ pc = "Unmarshal"
    /\ no = Len(lines)
    /\ err' = NoError
    /\ pc' = "UnmarshalDone"
    /\ UNCHANGED <<file, pass, text, lines, no, state, peerCfg, cfg, ret, out, first, others>>

(***************************************************************************)
(* GetConfig                                                               *)
(***************************************************************************)
\* lines 231-236: os.ReadFile fails and GetConfig returns, or c := &Config{}
\* and c.UnmarshalText(b) is entered
GetConfigRead ==
    /\ pc = "GetConfig"
    /\ IF file = <<>>
       THEN /\ ret' = [c |-> FALSE, err |-> "cannot read file"]
            /\ pc' = "Returned"
            /\ UNCHANGED <<text, lines, no, state, peerCfg, cfg, err>>
       ELSE /\ UnmarshalEnter(file[1])
            /\ pc' = "Unmarshal"
            /\ UNCHANGED ret
    /\ UNCHANGED <<file, pass, out, first, others>>

\* GetConfigReturn without the error check of line 236: c is returned always
GetConfigReturnIgnoringError ==
    /\ pc = "UnmarshalDone"
    /\ pass = 1
    /\ ret' = [c |-> TRUE, err |-> ""]
    /\ pc' = "Returned"
    /\ UNCHANGED <<file, pass, text, lines, no, state, peerCfg, cfg, err, out, first, others>>

\* lines 236-239: UnmarshalText has returned; nil and the error, or c and nil
GetConfigReturn ==
    /\ pc = "UnmarshalDone"
    /\ pass = 1
    /\ ret' = IF err.kind # ""
              THEN [c |-> FALSE, err |-> "cannot parse config file"]
              ELSE [c |-> TRUE, err |-> ""]
    /\ pc' = "Returned"
    /\ UNCHANGED <<file, pass, text, lines, no, state, peerCfg, cfg, err, out, first, others>>

(***************************************************************************)
(* The caller: encode the Config GetConfig returned, decode the result     *)
(***************************************************************************)
\* c.MarshalText() on the Config GetConfig returned
Marshal ==
    /\ pc = "Returned"
    /\ ret.c
    /\ out' = MarshalText(cfg)
    /\ pc' = "Marshalled"
    /\ UNCHANGED <<file, pass, text, lines, no, state, peerCfg, cfg, err, ret, first, others>>

\* c.UnmarshalText(text) on the text MarshalText returned
UnmarshalAgain ==
    /\ pc = "Marshalled"
    /\ out.ok
    /\ first' = cfg
    /\ pass' = 2
    /\ UnmarshalEnter(out.text)
    /\ pc' = "Unmarshal"
    /\ UNCHANGED <<file, ret, out, others>>

Next ==
    \/ GetConfigRead
    \/ UnmarshalLine
    \/ UnmarshalReturn
    \/ GetConfigReturn
    \/ Marshal
    \/ UnmarshalAgain

(***************************************************************************)
(* GetUnresolvedEndpoints                                                  *)
(***************************************************************************)
\* a map with no entry
EmptyMap == [k \in {} |-> <<>>]

\* MapSet keeping the entry a key already has
MapSetKeepFirst(m, k, v) ==
    [x \in DOMAIN m \cup {k} |-> IF x \in DOMAIN m THEN m[x] ELSE v]

\* m[k] = v of a Go map: the entry of k is added or overwritten
MapSet(m, k, v) == [x \in DOMAIN m \cup {k} |-> IF x = k THEN v ELSE m[x]]

\* wgtypes.ParseKey of line 289: base64 of exactly KeyLen bytes, else an error
WgtypesParseKey(s) ==
    LET d == B64Decode(s)
    IN  IF d.ok /\ Len(d.v) = KeyLen
        THEN [ok |-> TRUE, v |-> d.v]
        ELSE [ok |-> FALSE, v |-> ZeroKey]

\* GetUnresolvedEndpoints is not running
GueIdle ==
    [pc |-> "idle", lines |-> <<>>, no |-> 0, state |-> "unknown",
     endpoint |-> <<>>, pubkey |-> <<>>, unresolvedEndpoints |-> EmptyMap,
     ret |-> [m |-> FALSE, err |-> ""]]

\* lines 243-251: os.ReadFile fails and the function returns, or the locals
\* are set up and the range over the lines of the file starts
GetUnresolvedEndpointsRead ==
    /\ gue.pc = "GetUnresolvedEndpoints"
    /\ gue' = IF file = <<>>
              THEN [gue EXCEPT !.pc = "Returned",
                               !.ret = [m |-> FALSE, err |-> "cannot read file"]]
              ELSE [gue EXCEPT !.pc = "Loop",
                               !.lines = Split(file[1], "\n"),
                               !.no = 0,
                               !.state = "unknown",
                               !.endpoint = <<>>,
                               !.pubkey = <<>>,
                               !.unresolvedEndpoints = EmptyMap]
    /\ UNCHANGED <<file, pc, pass, text, lines, no, state, peerCfg, cfg, err, ret,
                   out, first, prior, sync, status>>

\* lines 285-295 without the reset of lines 294-295: the pair stays pending
GetUnresolvedEndpointsCommitNoReset(g, pubkey, endpoint) ==
    IF pubkey = <<>> \/ endpoint = <<>>
    THEN [g EXCEPT !.pubkey = pubkey, !.endpoint = endpoint, !.no = @ + 1]
    ELSE LET key == WgtypesParseKey(pubkey)
         IN  IF ~key.ok
             THEN [g EXCEPT !.pubkey = pubkey, !.endpoint = endpoint,
                            !.pc = "Returned",
                            !.ret = [m |-> FALSE, err |-> "cannot parse key"]]
             ELSE [g EXCEPT !.unresolvedEndpoints = MapSet(@, key.v, endpoint),
                            !.pubkey = pubkey,
                            !.endpoint = endpoint,
                            !.no = @ + 1]

\* lines 285-295: with both strings non-empty the key is parsed and the pair
\* is committed, and both strings are reset
GetUnresolvedEndpointsCommit(g, pubkey, endpoint) ==
    IF pubkey = <<>> \/ endpoint = <<>>
    THEN [g EXCEPT !.pubkey = pubkey, !.endpoint = endpoint, !.no = @ + 1]
    ELSE LET key == WgtypesParseKey(pubkey)
         IN  IF ~key.ok
             THEN [g EXCEPT !.pubkey = pubkey, !.endpoint = endpoint,
                            !.pc = "Returned",
                            !.ret = [m |-> FALSE, err |-> "cannot parse key"]]
             ELSE [g EXCEPT !.unresolvedEndpoints = MapSet(@, key.v, endpoint),
                            !.pubkey = <<>>,
                            !.endpoint = <<>>,
                            !.no = @ + 1]

\* lines 260-264 without the reset of lines 262-263
GetUnresolvedEndpointsPeerHeaderNoReset(g) ==
    [g EXCEPT !.state = "peer", !.no = @ + 1]

\* lines 260-264: a [Peer] header
GetUnresolvedEndpointsPeerHeader(g) ==
    [g EXCEPT !.state = "peer", !.pubkey = <<>>, !.endpoint = <<>>, !.no = @ + 1]

\* lines 252-295: the body of the range loop on the line of index g.no
GetUnresolvedEndpointsBody(g) ==
    LET ln == TrimSpace(g.lines[g.no + 1])
    IN  IF ln = <<>> \/ ln[1] = "#"
        THEN [g EXCEPT !.no = @ + 1]
        ELSE IF ln = sInterfaceHeader
        THEN [g EXCEPT !.state = "inter", !.no = @ + 1]
        ELSE IF ln = sPeerHeader
        THEN GetUnresolvedEndpointsPeerHeader(g)
        ELSE IF g.state # "peer"
        THEN [g EXCEPT !.no = @ + 1]
        ELSE LET parts == Split(ln, "=")
                 lhs   == TrimSpace(parts[1])
                 rhs   == TrimSpace(Join(Tail(parts), <<"=">>))
             IN  IF Len(parts) < 2
                 THEN [g EXCEPT !.pc = "Returned",
                                !.ret = [m |-> FALSE, err |-> "missing ="]]
                 ELSE GetUnresolvedEndpointsCommit(
                          g,
                          IF lhs = sPublicKey THEN rhs ELSE g.pubkey,
                          IF lhs = sEndpoint THEN rhs ELSE g.endpoint)

\* one iteration of the range loop of line 251
GetUnresolvedEndpointsLine ==
    /\ gue.pc = "Loop"
    /\ gue.no < Len(gue.lines)
    /\ gue' = GetUnresolvedEndpointsBody(gue)
    /\ UNCHANGED <<file, pc, pass, text, lines, no, state, peerCfg, cfg, err, ret,
                   out, first, prior, sync, status>>

\* line 297: the range is exhausted, the map is returned
GetUnresolvedEndpointsReturn ==
    /\ gue.pc = "Loop"
    /\ gue.no = Len(gue.lines)
    /\ gue' = [gue EXCEPT !.pc = "Returned", !.ret = [m |-> TRUE, err |-> ""]]
    /\ UNCHANGED <<file, pc, pass, text, lines, no, state, peerCfg, cfg, err, ret,
                   out, first, prior, sync, status>>

NextEndpoints ==
    \/ GetUnresolvedEndpointsRead
    \/ GetUnresolvedEndpointsLine
    \/ GetUnresolvedEndpointsReturn

(***************************************************************************)
(* MatchConfig and the sync command                                        *)
(***************************************************************************)
sConfSuffix == <<".", "c", "o", "n", "f">>

HasPrefix(s, prefix) == Len(s) >= Len(prefix) /\ SubSeq(s, 1, Len(prefix)) = prefix

HasSuffix(s, suffix) ==
    Len(s) >= Len(suffix) /\ SubSeq(s, Len(s) - Len(suffix) + 1, Len(s)) = suffix

\* strings.LastIndex(s, substr), 0-based, -1 when substr does not occur
LastIndex(s, substr) ==
    LET at == {i \in 0..(Len(s) - Len(substr)) : SubSeq(s, i + 1, i + Len(substr)) = substr}
    IN  IF at = {} THEN -1 ELSE CHOOSE i \in at : \A j \in at : j <= i

\* lines 192-197: the pattern anchored at both ends
AnchorPattern(pattern) ==
    LET p1 == IF HasPrefix(pattern, <<"^">>) THEN pattern ELSE <<"^">> \o pattern
    IN  IF HasSuffix(p1, <<"$">>) THEN p1 ELSE p1 \o <<"$">>

\* the characters a pattern matches as themselves
RegexpLiterals ==
    {LowerCase[k] : k \in 1..26} \cup {Digits[k] : k \in 1..10}

\* regexp.Match of line 210 for an anchored pattern ^body$ whose body is
\* literal characters, optionally followed by .* ; any other pattern does
\* not compile: [err, matched]
RegexpMatch(pattern, name) ==
    LET body == SubSeq(pattern, 2, Len(pattern) - 1)
        star == HasSuffix(body, <<".", "*">>)
        lit  == IF star THEN SubSeq(body, 1, Len(body) - 2) ELSE body
    IN  IF \E i \in 1..Len(lit) : lit[i] \notin RegexpLiterals
        THEN [err |-> TRUE, matched |-> FALSE]
        ELSE [err |-> FALSE,
              matched |-> IF star THEN HasPrefix(name, lit) ELSE name = lit]

\* line 207: the directory entry is a config file
IsConfName(name) ==
    ~(Len(name) < 6 \/ LastIndex(name, sConfSuffix) # Len(name) - 5)

\* file.Name()[:len(file.Name())-5]
IfaceName(name) == SubSeq(name, 1, Len(name) - 5)

\* lines 206-226 over the entries files[i..], in the order of os.ReadDir:
\* [fatal, cfgs], cfgs the interface names that got a Config
RECURSIVE MatchFiles(_, _, _, _)
MatchFiles(pattern, files, i, cfgs) ==
    IF i > Len(files) THEN [fatal |-> FALSE, cfgs |-> cfgs]
    ELSE LET file1 == files[i]
         IN  IF ~IsConfName(file1.name)
             THEN MatchFiles(pattern, files, i + 1, cfgs)
             ELSE LET m == RegexpMatch(pattern, IfaceName(file1.name))
                  IN  IF m.err THEN [fatal |-> TRUE, cfgs |-> {}]
                      ELSE IF ~m.matched
                      THEN MatchFiles(pattern, files, i + 1, cfgs)
                      ELSE IF file1.content # "ok"
                      THEN [fatal |-> TRUE, cfgs |-> {}]
                      ELSE MatchFiles(pattern, files, i + 1,
                                      cfgs \cup {IfaceName(file1.name)})

\* MatchConfig(pattern) on a directory: dir.ok is whether os.ReadDir succeeds,
\* dir.files its entries; a Fatalln ends the process
MatchConfig(pattern, dir) ==
    IF ~dir.ok THEN [fatal |-> TRUE, cfgs |-> {}]
    ELSE MatchFiles(AnchorPattern(pattern), dir.files, 1, {})

\* the interface names the directory entries can give
IfaceNames(dir) == {IfaceName(dir.files[i].name) : i \in 1..Len(dir.files)}

\* syncCmd.Run is not running
SyncIdle ==
    [pc |-> "idle", args |-> <<>>, dir |-> [ok |-> TRUE, files |-> <<>>],
     matchCalls |-> 0, returned |-> {}, cfgs |-> {}, syncCalls |-> EmptyMap,
     logged |-> 0]

\* lines 17-21: the argument check and the call of MatchConfig
SyncRun ==
    /\ sync.pc = "Run"
    /\ IF Len(sync.args) # 1
       THEN sync' = [sync EXCEPT !.pc = "Done", !.logged = @ + 1]
       ELSE LET r == MatchConfig(sync.args[1], sync.dir)
            IN  sync' = [sync EXCEPT !.pc = IF r.fatal THEN "Exited" ELSE "Range",
                                     !.matchCalls = @ + 1,
                                     !.returned = r.cfgs,
                                     !.cfgs = r.cfgs]
    /\ UNCHANGED <<file, pc, pass, text, lines, no, state, peerCfg, cfg, err, ret,
                   out, first, prior, gue, status>>

\* SyncRange returning from Run at the first Sync error
SyncRangeStopAtError ==
    /\ sync.pc = "Range"
    /\ \E iface \in sync.cfgs, failed \in BOOLEAN :
          sync' = [sync EXCEPT !.cfgs = @ \ {iface},
                               !.syncCalls = MapSet(@, iface, @[iface] + 1),
                               !.logged = IF failed THEN @ + 1 ELSE @,
                               !.pc = IF failed THEN "Done" ELSE @]
    /\ UNCHANGED <<file, pc, pass, text, lines, no, state, peerCfg, cfg, err, ret,
                   out, first, prior, gue, status>>

\* lines 22-27: one iteration of the range over the map, in the order the
\* map gives; Sync returns nil or an error, which is logged
SyncRange ==
    /\ sync.pc = "Range"
    /\ \E iface \in sync.cfgs, failed \in BOOLEAN :
          sync' = [sync EXCEPT !.cfgs = @ \ {iface},
                               !.syncCalls = MapSet(@, iface, @[iface] + 1),
                               !.logged = IF failed THEN @ + 1 ELSE @]
    /\ UNCHANGED <<file, pc, pass, text, lines, no, state, peerCfg, cfg, err, ret,
                   out, first, prior, gue, status>>

\* line 28: the range is exhausted
SyncReturn ==
    /\ sync.pc = "Range"
    /\ sync.cfgs = {}
    /\ sync' = [sync EXCEPT !.pc = "Done"]
    /\ UNCHANGED <<file, pc, pass, text, lines, no, state, peerCfg, cfg, err, ret,
                   out, first, prior, gue, status>>

NextSync ==
    \/ SyncRun
    \/ SyncRange
    \/ SyncReturn

(***************************************************************************)
(* PeerStatus                                                              *)
(***************************************************************************)
\* PeerStatus is not running
StatusIdle ==
    [pc |-> "idle", newFails |-> FALSE, deviceFails |-> FALSE,
     perIteration |-> TRUE, device |-> <<>>, c |-> "nil", deferred |-> <<>>,
     i |-> 0, p |-> <<>>, peers |-> EmptyMap, ret |-> [peers |-> FALSE, err |-> ""],
     closed |-> 0, closedNil |-> 0, logged |-> 0]

\* where the pointer &p of iteration i points: a variable of its own per
\* iteration (slot i), or the one variable of the whole loop (slot 0)
AddrOfP(st, i) == IF st.perIteration THEN i ELSE 0

\* lines 10-19: wgctrl.New, the defer of the closure on c, the error check
PeerStatusNew ==
    /\ status.pc = "PeerStatus"
    /\ status' = IF status.newFails
                 THEN [status EXCEPT !.c = "nil",
                                     !.deferred = <<"nil">>,
                                     !.ret = [peers |-> FALSE, err |-> "new"],
                                     !.pc = "Deferred"]
                 ELSE [status EXCEPT !.c = "client",
                                     !.deferred = <<"client">>,
                                     !.pc = "Device"]
    /\ UNCHANGED <<file, pc, pass, text, lines, no, state, peerCfg, cfg, err, ret,
                   out, first, prior, gue, sync>>

\* lines 20-25: c.Device(iface), the error check, the empty map
PeerStatusDevice ==
    /\ status.pc = "Device"
    /\ status' = IF status.deviceFails
                 THEN [status EXCEPT !.ret = [peers |-> FALSE, err |-> "device"],
                                     !.pc = "Deferred"]
                 ELSE [status EXCEPT !.peers = EmptyMap, !.i = 0, !.pc = "Range"]
    /\ UNCHANGED <<file, pc, pass, text, lines, no, state, peerCfg, cfg, err, ret,
                   out, first, prior, gue, sync>>

\* lines 26-28: one iteration of the range over device.Peers
PeerStatusRange ==
    /\ status.pc = "Range"
    /\ status.i < Len(status.device)
    /\ LET p == status.device[status.i + 1]
       IN  status' = [status EXCEPT
                         !.p = <<p>>,
                         !.peers = MapSet(@, p.PublicKey, AddrOfP(status, status.i + 1)),
                         !.i = @ + 1]
    /\ UNCHANGED <<file, pc, pass, text, lines, no, state, peerCfg, cfg, err, ret,
                   out, first, prior, gue, sync>>

\* line 29: return peers, nil
PeerStatusReturn ==
    /\ status.pc = "Range"
    /\ status.i = Len(status.device)
    /\ status' = [status EXCEPT !.ret = [peers |-> TRUE, err |-> ""], !.pc = "Deferred"]
    /\ UNCHANGED <<file, pc, pass, text, lines, no, state, peerCfg, cfg, err, ret,
                   out, first, prior, gue, sync>>

\* lines 11-16: the deferred closure runs on the way out and calls Close on
\* the c it was given; Close on a client returns nil or an error, which is
\* logged; Close on the nil client returns nil or panics, as wgctrl has it
PeerStatusDeferred ==
    /\ status.pc = "Deferred"
    /\ IF status.deferred[1] = "nil"
       THEN \E panics \in BOOLEAN :
               status' = [status EXCEPT !.closedNil = @ + 1,
                                        !.deferred = <<>>,
                                        !.pc = IF panics THEN "Panicked" ELSE "Returned"]
       ELSE \E failed \in BOOLEAN :
               status' = [status EXCEPT !.closed = @ + 1,
                                        !.deferred = <<>>,
                                        !.logged = IF failed THEN @ + 1 ELSE @,
                                        !.pc = "Returned"]
    /\ UNCHANGED <<file, pc, pass, text, lines, no, state, peerCfg, cfg, err, ret,
                   out, first, prior, gue, sync>>

NextStatus ==
    \/ PeerStatusNew
    \/ PeerStatusDevice
    \/ PeerStatusRange
    \/ PeerStatusReturn
    \/ PeerStatusDeferred

(***************************************************************************)
(* The input texts                                                         *)
(***************************************************************************)
Rep(c, n) == [i \in 1..n |-> c]

\* key = value
KV(key, value) == key \o sKeySep \o value

\* two keys of KeyLen bytes in base64, a key of 3 bytes, a key of 36 bytes
\* and a string that is not base64
KeyA == Rep("Q", 40) \o <<"Q", "Q", "A", "=">>
KeyB == Rep("B", 40) \o <<"B", "B", "A", "=">>
ShortKey == <<"Q", "Q", "Q", "Q">>
LongKey == Rep("Q", 48)
BadKey == <<"!", "!">>

LineBlank == <<>>
LineComment == <<"#", " ", "c">>
LinePrivateKey == KV(sPrivateKey, KeyA)
LineMTU == KV(sMTU, <<"1", "4", "2", "0">>)
LineUnknown == KV(<<"F", "o", "o">>, <<"b", "a", "r">>)
LineNoEq == <<"M", "T", "U", " ", "1", "4", "2", "0">>

\* lines of every kind the line switch tells apart
SyntaxPool ==
    {LineBlank, LineComment, sInterfaceHeader, sPeerHeader, LinePrivateKey,
     LineMTU, LineUnknown, LineNoEq}

\* the texts of at most MaxLines lines of a pool, joined by "\n"
Texts(pool) ==
    {Join(t, sNewline) : t \in UNION {[1..n -> pool] : n \in 0..MaxLines}}

InitWith(pool) ==
    /\ file \in {<<>>} \cup {<<t>> : t \in Texts(pool)}
    /\ pc = "GetConfig"
    /\ pass = 1
    /\ text = <<>>
    /\ lines = <<>>
    /\ no = 0
    /\ state = "unknown"
    /\ peerCfg = 0
    /\ cfg = ZeroConfig
    /\ err = NoError
    /\ ret = [c |-> FALSE, err |-> ""]
    /\ out = [ok |-> FALSE, text |-> <<>>]
    /\ first = ZeroConfig
    /\ prior = ZeroConfig
    /\ gue = GueIdle
    /\ sync = SyncIdle
    /\ status = StatusIdle

Init == InitWith(SyntaxPool)

Spec == Init /\ [][Next]_vars

\* the Table directive: off in three letter cases, two numbers
LineTableOff == KV(sTable, sOff)
LineTableOFF == KV(sTable, <<"O", "F", "F">>)
LineTableOfF == KV(sTable, <<"O", "f", "F">>)
LineTable42 == KV(sTable, <<"4", "2">>)
LineTable7 == KV(sTable, <<"7">>)

TablePool ==
    {sInterfaceHeader, sPeerHeader, LinePrivateKey, LineTableOff, LineTableOFF,
     LineTableOfF, LineTable42, LineTable7}

InitTable == InitWith(TablePool)

SpecTable == InitTable /\ [][Next]_vars

\* key lines: keys of the right length, too short, too long, not base64
KeysPool ==
    {sInterfaceHeader, sPeerHeader, LinePrivateKey, KV(sPrivateKey, ShortKey),
     KV(sPublicKey, KeyB), KV(sPublicKey, LongKey), KV(sPresharedKey, KeyA),
     KV(sPresharedKey, KeyB), KV(sPresharedKey, ShortKey), KV(sPresharedKey, BadKey)}

InitKeys == InitWith(KeysPool)

SpecKeys == InitKeys /\ [][Next]_vars

\* the other fields of the interface and of a peer
LinePreUp == KV(sPreUp, <<"a">>)
LinePostDown == KV(sPostDown, <<"b", " ", "c">>)
LineAddress == KV(sAddress, <<"1", "0", ".", "0", ".", "0", ".", "1", "/", "2", "4">>)
LineDNS == KV(sDNS, <<"1", ".", "1", ".", "1", ".", "1">>)
LineListenPort == KV(sListenPort, <<"5", "1", "8", "2", "0">>)
LinePublicKey == KV(sPublicKey, KeyB)
LineAllowedIPs == KV(sAllowedIPs, <<"1", "0", ".", "0", ".", "0", ".", "0", "/", "2", "4", ",", " ", "1", "0", ".", "0", ".", "1", ".", "0", "/", "2", "4">>)
LineKeepalive == KV(sPersistentKeepalive, <<"2", "5">>)

FieldsPool ==
    {sInterfaceHeader, sPeerHeader, LinePrivateKey, LinePreUp, LinePostDown,
     LineAddress, LineDNS, LineListenPort, LinePublicKey, LineAllowedIPs}

InitFields == InitWith(FieldsPool)

SpecFields == InitFields /\ [][Next]_vars

\* an interface with its key, and peers with a key, a list of allowed IPs
\* on one line or on two, and a keepalive
LineAllowedIP == KV(sAllowedIPs, <<"1", "0", ".", "0", ".", "2", ".", "0", "/", "2", "4">>)

PeersPool ==
    {sInterfaceHeader, sPeerHeader, LinePrivateKey, LinePublicKey, LineAllowedIPs,
     LineAllowedIP, LineKeepalive}

InitPeers == InitWith(PeersPool)

SpecPeers == InitPeers /\ [][Next]_vars

(***************************************************************************)
(* A caller that decodes into a Config it already holds                    *)
(***************************************************************************)
\* texts that leave content in a Config: a disabled table and an MTU; two
\* peers, one with a key; an explicit table and a hook, then a failing line
OtherTexts ==
    {Join(<<sInterfaceHeader, KV(sTable, sOff), KV(sMTU, <<"9", "0", "0", "0">>)>>, <<"\n">>),
     Join(<<sPeerHeader, KV(sPublicKey, KeyB), sPeerHeader>>,
          <<"\n">>),
     Join(<<sInterfaceHeader, KV(sTable, <<"4", "2">>), KV(sPreUp, <<"x">>),
            <<"M", "T", "U">>>>, <<"\n">>)}

\* c.UnmarshalText(b) on the Config GetConfig returned, b another text
UnmarshalOther ==
    /\ pc = "Returned"
    /\ ret.c
    /\ pass = 1
    /\ \E b \in OtherTexts :
          UnmarshalEnter(b)
    /\ first' = cfg
    /\ prior' = cfg
    /\ pass' = 3
    /\ pc' = "Unmarshal"
    /\ UNCHANGED <<file, ret, out, gue, sync, status>>

\* c.UnmarshalText(b) on the same Config again, b the text of the file
UnmarshalSame ==
    /\ pc = "UnmarshalDone"
    /\ pass = 3
    /\ UnmarshalEnter(file[1])
    /\ prior' = cfg
    /\ pass' = 4
    /\ pc' = "Unmarshal"
    /\ UNCHANGED <<file, ret, out, first, gue, sync, status>>

NextReuse ==
    \/ GetConfigRead
    \/ UnmarshalLine
    \/ UnmarshalReturn
    \/ GetConfigReturn
    \/ UnmarshalOther
    \/ UnmarshalSame

\* lines that leave content of every kind in a Config
ReusePool ==
    {sInterfaceHeader, sPeerHeader, LineMTU, LineTableOff, LinePreUp, LinePublicKey}

InitReuse == InitWith(ReusePool)

SpecReuse == InitReuse /\ [][NextReuse]_vars

\* GetConfig alone, without a caller that encodes
NextDecode ==
    \/ GetConfigRead
    \/ UnmarshalLine
    \/ UnmarshalReturn
    \/ GetConfigReturn

MaxListLines == 4

LinePreUpB == KV(sPreUp, <<"b", " ", "=", "c">>)
LinePostUp == KV(sPostUp, <<"a">>)
LinePreDown == KV(sPreDown, <<"a">>)
LineAddresses == KV(sAddress, <<"1", "0", ".", "0", ".", "0", ".", "2", "/", "2", "4", ",", " ", "1", "0", ".", "0", ".", "1", ".", "2", "/", "1", "6">>)
LineDNSs == KV(sDNS, <<"8", ".", "8", ".", "8", ".", "8", ",", "9", ".", "9", ".", "9", ".", "9">>)

\* the list directives, two of them with two elements on a line, and the
\* two headers
ListsPool ==
    {sInterfaceHeader, sPeerHeader, LinePreUp, LinePreUpB, LinePostUp, LinePreDown,
     LinePostDown, LineAddresses, LineDNSs}

\* an [Interface] header and at most MaxListLines lines of the pool
ListTexts ==
    {Join(<<sInterfaceHeader>> \o t, sNewline) :
        t \in UNION {[1..k -> ListsPool] : k \in 0..MaxListLines}}

InitLists ==
    /\ file \in {<<>>} \cup {<<t>> : t \in ListTexts}
    /\ pc = "GetConfig"
    /\ pass = 1
    /\ text = <<>>
    /\ lines = <<>>
    /\ no = 0
    /\ state = "unknown"
    /\ peerCfg = 0
    /\ cfg = ZeroConfig
    /\ err = NoError
    /\ ret = [c |-> FALSE, err |-> ""]
    /\ out = [ok |-> FALSE, text |-> <<>>]
    /\ first = ZeroConfig
    /\ prior = ZeroConfig
    /\ gue = GueIdle
    /\ sync = SyncIdle
    /\ status = StatusIdle

SpecLists == InitLists /\ [][NextDecode]_vars

\* no decode is running: the variables of GetConfig and UnmarshalText
IdleDecode ==
    /\ pc = "idle"
    /\ pass = 1
    /\ text = <<>>
    /\ lines = <<>>
    /\ no = 0
    /\ state = "unknown"
    /\ peerCfg = 0
    /\ cfg = ZeroConfig
    /\ err = NoError
    /\ ret = [c |-> FALSE, err |-> ""]
    /\ out = [ok |-> FALSE, text |-> <<>>]
    /\ first = ZeroConfig
    /\ prior = ZeroConfig

\* the texts of at most n lines of a pool
TextsOf(pool, n) ==
    {Join(t, sNewline) : t \in UNION {[1..k -> pool] : k \in 0..n}}

(***************************************************************************)
(* The inputs of GetUnresolvedEndpoints                                    *)
(***************************************************************************)
MaxEndpointLines == 6

Host1 == <<"h", "1", ":", "1">>
Host2 == <<"h", "2", ":", "2">>

\* a [Peer] header, two public keys and two endpoints
EndpointsPool ==
    {sPeerHeader, KV(sPublicKey, KeyA), KV(sPublicKey, KeyB),
     KV(sEndpoint, Host1), KV(sEndpoint, Host2)}

InitEndpointsWith(texts) ==
    /\ file \in {<<>>} \cup {<<t>> : t \in texts}
    /\ IdleDecode
    /\ gue = [GueIdle EXCEPT !.pc = "GetUnresolvedEndpoints"]
    /\ sync = SyncIdle
    /\ status = StatusIdle

InitEndpoints == InitEndpointsWith(TextsOf(EndpointsPool, MaxEndpointLines))

SpecEndpoints == InitEndpoints /\ [][NextEndpoints]_vars

MaxBlockLines == 5

\* both headers, two public keys and an endpoint, and lines the scan fails
\* on: a key that is too short and a line without "="
BlocksPool ==
    {sInterfaceHeader, sPeerHeader, KV(sPublicKey, KeyA), KV(sPublicKey, KeyB),
     KV(sEndpoint, Host1), KV(sPublicKey, ShortKey), LineNoEq}

InitBlocks == InitEndpointsWith(TextsOf(BlocksPool, MaxBlockLines))

SpecBlocks == InitBlocks /\ [][NextEndpoints]_vars

(***************************************************************************)
(* The inputs of the sync command                                          *)
(***************************************************************************)
MaxArgs == 2

\* the names /etc/wireguard may hold, in the order os.ReadDir returns them
DirNames ==
    << <<".", "c", "o", "n", "f">>,
       <<"w", "g", "0", ".", "c", "o", "n", "f">>,
       <<"w", "g", "0", ".", "t", "x", "t">>,
       <<"w", "g", "1", ".", "c", "o", "n", "f">> >>

\* the entries of a directory: of each name whether it is absent, or what
\* reading and decoding the file gives
RECURSIVE DirFiles(_, _)
DirFiles(content, i) ==
    IF i > Len(DirNames) THEN <<>>
    ELSE IF content[i] = "absent" THEN DirFiles(content, i + 1)
    ELSE <<[name |-> DirNames[i], content |-> content[i]]>> \o DirFiles(content, i + 1)

\* an interface name, a pattern with .*, an anchored pattern, and a pattern
\* that does not compile
Patterns ==
    {<<"w", "g", "0">>, <<"w", "g", ".", "*">>, <<"^", "w", "g", "1", "$">>, <<"(">>}

InitSync ==
    /\ file = <<>>
    /\ IdleDecode
    /\ gue = GueIdle
    /\ status = StatusIdle
    /\ \E args \in UNION {[1..k -> Patterns] : k \in 0..MaxArgs},
          ok \in BOOLEAN,
          content \in [1..Len(DirNames) -> {"absent", "ok", "unreadable", "unparseable"}] :
          LET dir == [ok |-> ok, files |-> DirFiles(content, 1)]
          IN  sync = [SyncIdle EXCEPT !.pc = "Run",
                                      !.args = args,
                                      !.dir = dir,
                                      !.syncCalls = [n \in IfaceNames(dir) |-> 0]]

SpecSync == InitSync /\ [][NextSync]_vars

(***************************************************************************)
(* The inputs of PeerStatus                                                *)
(***************************************************************************)
MaxPeers == 3

OneKey == [i \in 1..KeyLen |-> 1]

\* peers of a device: two of them with the same public key
DevicePeers ==
    {[PublicKey |-> ZeroKey, ReceiveBytes |-> 1],
     [PublicKey |-> ZeroKey, ReceiveBytes |-> 2],
     [PublicKey |-> OneKey, ReceiveBytes |-> 1]}

InitStatus ==
    /\ file = <<>>
    /\ IdleDecode
    /\ gue = GueIdle
    /\ sync = SyncIdle
    /\ \E newFails \in BOOLEAN, deviceFails \in BOOLEAN, perIteration \in BOOLEAN,
          device \in UNION {[1..k -> DevicePeers] : k \in 0..MaxPeers} :
          status = [StatusIdle EXCEPT !.pc = "PeerStatus",
                                      !.newFails = newFails,
                                      !.deviceFails = deviceFails,
                                      !.perIteration = perIteration,
                                      !.device = device]

SpecStatus == InitStatus /\ [][NextStatus]_vars

(***************************************************************************)
(* What the claims say about a line of text, read off the text itself      *)
(***************************************************************************)
\* a blank line or a full-line comment
IsSkippedLine(l) == TrimSpace(l) = <<>> \/ TrimSpace(l)[1] = "#"

IsHeaderLine(l) == TrimSpace(l) \in {sInterfaceHeader, sPeerHeader}

\* a line that is neither skipped nor a header
IsDirectiveLine(l) == ~IsSkippedLine(l) /\ ~IsHeaderLine(l)

HasEq(l) == IndexByte(l, "=") > 0

\* the key of a key = value line: what precedes the first "=", trimmed
LineKey(l) == TrimSpace(SubSeq(TrimSpace(l), 1, IndexByte(TrimSpace(l), "=") - 1))

\* the value of a key = value line: what follows the first "=", trimmed
LineValue(l) ==
    TrimSpace(SubSeq(TrimSpace(l), IndexByte(TrimSpace(l), "=") + 1, Len(TrimSpace(l))))

\* line i of ls is a key = value line with this key
IsLineOf(ls, i, key) ==
    IsDirectiveLine(ls[i]) /\ HasEq(ls[i]) /\ LineKey(ls[i]) = key

\* the dispatch tables of the two sections
InterfaceKeys ==
    {sAddress, sDNS, sMTU, sTable, sListenPort, sPreUp, sPostUp, sPreDown,
     sPostDown, sSaveConfig, sPrivateKey, sWgBin}
PeerKeys == {sPublicKey, sPresharedKey, sAllowedIPs, sEndpoint, sPersistentKeepalive}

\* the section line i of ls lies in: that of the last header before it
RECURSIVE SectionAt(_, _)
SectionAt(ls, i) ==
    IF i <= 1 THEN "unknown"
    ELSE IF TrimSpace(ls[i - 1]) = sInterfaceHeader THEN "inter"
    ELSE IF TrimSpace(ls[i - 1]) = sPeerHeader THEN "peer"
    ELSE SectionAt(ls, i - 1)

\* UnmarshalText has returned an error
DecodeFailed == pc = "UnmarshalDone" /\ err.kind # ""

\* UnmarshalText has returned nil
DecodeSucceeded == pc = "UnmarshalDone" /\ err.kind = ""

\* the loop is about to process line lines[no + 1], the line of 1-based
\* physical line number no + 1
AtLine == pc = "Unmarshal" /\ no < Len(lines)

\* the step from AtLine that returns an error citing line number n
FailsCiting(n) == pc' = "UnmarshalDone" /\ err'.kind # "" /\ err'.line = n

(***************************************************************************)
(* C1: when Decode meets a non-blank, non-comment, non-header line without *)
(* "=", it fails and the error cites that line's 1-based line number.      *)
(* (Refuted: line 169 prints the 0-based loop index.)                      *)
(***************************************************************************)
C1_MissingEqCitesLineNumber ==
    [][(AtLine /\ IsDirectiveLine(lines[no + 1]) /\ ~HasEq(lines[no + 1]))
         => FailsCiting(no + 1)]_vars

(***************************************************************************)
(* C2: the three routing-table states stay distinguishable over decode ->  *)
(* encode -> decode: the second decode gives the table state of the first, *)
(* and the disabled state never comes back as the default state.           *)
(* (Refuted: the template writes no Table line for the disabled state.)    *)
(***************************************************************************)
C2_TableStateRoundTrips ==
    (DecodeSucceeded /\ pass = 2) => cfg.Table = first.Table

\* the spellings of "off" in every letter case
OffSpellings ==
    {<<o, f1, f2>> : o \in {"o", "O"}, f1 \in {"f", "F"}, f2 \in {"f", "F"}}

IsDecimal(v) == v # <<>> /\ \A i \in 1..Len(v) : IsDigit(v[i])

\* the Table lines of a text
TableLines(ls) == {i \in 1..Len(ls) : IsLineOf(ls, i, sTable)}

\* the table state the last Table line of a text stands for
ExpectedTable(ls) ==
    LET idx == TableLines(ls)
    IN  IF idx = {} THEN <<0>>
        ELSE LET v == LineValue(ls[CHOOSE i \in idx : \A j \in idx : j <= i])
             IN  IF v \in OffSpellings THEN <<>> ELSE <<DecVal(v)>>

(***************************************************************************)
(* C3: a successful Decode leaves Table in the state of the last Table     *)
(* line of the text: default (a present zero, not nil) when there is none, *)
(* disabled (nil) for off in any letter case, the number n for Table = n;  *)
(* and Decode never fails on such a Table line of the [Interface] section. *)
(***************************************************************************)
C3_TableThreeStates ==
    /\ DecodeSucceeded => cfg.Table = ExpectedTable(lines)
    /\ (DecodeFailed /\ state = "inter" /\ (no + 1) \in TableLines(lines))
          => LET v == LineValue(lines[no + 1])
             IN  v \notin OffSpellings /\ ~IsDecimal(v)

\* two Table lines, the last one "off" written with capitals: disabled
C3_Witness ==
    /\ DecodeSucceeded
    /\ pass = 1
    /\ cfg.Table = <<>>
    /\ Cardinality(TableLines(lines)) >= 2
    /\ \E i \in TableLines(lines) :
          /\ \A j \in TableLines(lines) : j <= i
          /\ LineValue(lines[i]) \in OffSpellings \ {sOff}

\* the values of the Table lines of the text MarshalText returned
TableValuesWritten ==
    LET ls == Split(out.text, "\n")
    IN  {LineValue(ls[i]) : i \in TableLines(ls)}

(***************************************************************************)
(* C4: Encode writes no Table line for the default state, the line         *)
(* Table = n for an explicit n, and the token off for the disabled state.  *)
(* (Refuted: the template writes Table = 0 for the default state and no    *)
(* Table line for the disabled state.)                                     *)
(***************************************************************************)
C4_EncodeRendersTable ==
    (pc = "Marshalled" /\ out.ok) =>
        /\ cfg.Table = <<0>> => TableValuesWritten = {}
        /\ cfg.Table = <<>> => TableValuesWritten = {sOff}
        /\ (cfg.Table # <<>> /\ cfg.Table # <<0>>)
              => TableValuesWritten = {Itoa(cfg.Table[1])}

(***************************************************************************)
(* C5: round trip: for a Config c with a private key,                      *)
(* UnmarshalText(MarshalText(c)) succeeds and yields a Config equal to c.  *)
(* (Refuted: the template writes a hook list as one line "[a b]", which    *)
(* decodes to a list of one other command.)                                *)
(***************************************************************************)
C5_RoundTrip ==
    (pc = "UnmarshalDone" /\ pass = 2) => (err.kind = "" /\ cfg = first)

(***************************************************************************)
(* C6: Encode never fails, also for a Config with no private key.          *)
(* (Refuted: serializeKey dereferences the nil key.)                       *)
(***************************************************************************)
C6_EncodeNeverFails == pc = "Marshalled" => out.ok

(***************************************************************************)
(* C7 as stated: when UnmarshalText returns an error no later line is      *)
(* processed, the Config decoded into holds nothing the earlier lines set, *)
(* and GetConfig returns no Config.                                        *)
(***************************************************************************)
C7_NoPartialModel ==
    [][DecodeFailed =>
          /\ cfg = newConfig
          /\ UNCHANGED <<cfg, no, err>>
          /\ (pass = 1 => pc' = "Returned" /\ ~ret'.c)]_vars

\* a is a prefix of b
IsPrefix(a, b) == Len(a) <= Len(b) /\ SubSeq(b, 1, Len(a)) = a

\* peer q holds all that peer p holds
PeerKeeps(p, q) ==
    /\ q.PublicKey = p.PublicKey
    /\ q.PresharedKey = p.PresharedKey
    /\ q.Endpoint = p.Endpoint
    /\ q.PersistentKeepaliveInterval = p.PersistentKeepaliveInterval
    /\ IsPrefix(p.AllowedIPs, q.AllowedIPs)

\* Config b holds all that Config a holds: the same fields and peers, a list
\* at most longer at its end
ConfigKeeps(a, b) ==
    /\ [b EXCEPT !.Address = <<>>, !.DNS = <<>>, !.Peers = <<>>]
          = [a EXCEPT !.Address = <<>>, !.DNS = <<>>, !.Peers = <<>>]
    /\ IsPrefix(a.Address, b.Address)
    /\ IsPrefix(a.DNS, b.DNS)
    /\ Len(b.Peers) = Len(a.Peers)
    /\ \A i \in 1..Len(a.Peers) : PeerKeeps(a.Peers[i], b.Peers[i])

(***************************************************************************)
(* C7 as amended: when UnmarshalText returns an error at some line, no     *)
(* later line is processed and GetConfig returns no Config; the Config     *)
(* decoded into is not rolled back: it holds all that the lines before the *)
(* failing line set.                                                       *)
(***************************************************************************)
C7_AbortsKeepingEarlierLines ==
    [][/\ (AtLine /\ err'.kind # "") => (pc' = "UnmarshalDone" /\ ConfigKeeps(cfg, cfg'))
       /\ DecodeFailed =>
             /\ UNCHANGED <<cfg, no, err>>
             /\ (pass = 1 => pc' = "Returned" /\ ~ret'.c)]_vars

\* GetConfig has returned no Config for a text whose fourth line fails, and
\* the Config still holds the MTU and the peer of the lines before it
C7_Witness ==
    /\ pc = "Returned"
    /\ ~ret.c
    /\ err.kind # ""
    /\ no = 3
    /\ cfg.MTU # 0
    /\ Len(cfg.Peers) = 1

\* a PresharedKey line lies before line i in the [Peer] block of line i
EarlierInBlock(ls, i) ==
    \E j \in 1..(i - 1) :
        /\ IsLineOf(ls, j, sPresharedKey)
        /\ \A k \in j..(i - 1) : ~IsHeaderLine(ls[k])

(***************************************************************************)
(* C8: a second PresharedKey line inside the same [Peer] block makes       *)
(* Decode fail, equal value or not; the first PresharedKey line of a block *)
(* (with a well-formed key) is accepted whatever the earlier blocks hold,  *)
(* and sets the key of that block's peer only.                             *)
(***************************************************************************)
C8_PresharedKeyOncePerPeer ==
    [][(AtLine /\ SectionAt(lines, no + 1) = "peer" /\ IsLineOf(lines, no + 1, sPresharedKey))
         => IF EarlierInBlock(lines, no + 1)
            THEN pc' = "UnmarshalDone" /\ err'.kind # ""
            ELSE LineValue(lines[no + 1]) \in {KeyA, KeyB}
                    => /\ pc' = "Unmarshal" /\ err'.kind = ""
                       /\ cfg'.Peers[Len(cfg.Peers)].PresharedKey # <<>>
                       /\ \A i \in 1..(Len(cfg.Peers) - 1) : cfg'.Peers[i] = cfg.Peers[i]]_vars

\* the second of two equal PresharedKey lines of one block is refused
C8_Witness ==
    /\ DecodeFailed
    /\ err.kind = "preshared key already defined"
    /\ no >= 1
    /\ IsLineOf(lines, no, sPresharedKey)
    /\ lines[no + 1] = lines[no]

\* line i of ls sets a key: PrivateKey of the interface, PublicKey or
\* PresharedKey of a peer
IsKeyLine(ls, i) ==
    \/ SectionAt(ls, i) = "inter" /\ IsLineOf(ls, i, sPrivateKey)
    \/ SectionAt(ls, i) = "peer" /\ IsLineOf(ls, i, sPublicKey)
    \/ SectionAt(ls, i) = "peer" /\ IsLineOf(ls, i, sPresharedKey)

(***************************************************************************)
(* C9: key decoding is strict: a PrivateKey, PublicKey or PresharedKey     *)
(* line whose value is not base64 of exactly KeyLen bytes makes Decode     *)
(* fail.  (Refuted: ParseKey copies what was decoded, short or long, into  *)
(* the key and returns no error.)                                          *)
(***************************************************************************)
C9_KeyDecodingStrict ==
    [][(/\ AtLine
        /\ IsKeyLine(lines, no + 1)
        /\ LET d == B64Decode(LineValue(lines[no + 1]))
           IN  ~d.ok \/ Len(d.v) # KeyLen)
         => (pc' = "UnmarshalDone" /\ err'.kind # "")]_vars

\* line i of ls is a key = value line that no dispatch table takes: it lies
\* before any section header, or its key is not one of its section
IsRejectedDirective(ls, i) ==
    /\ IsDirectiveLine(ls[i])
    /\ HasEq(ls[i])
    /\ \/ SectionAt(ls, i) = "unknown"
       \/ SectionAt(ls, i) = "inter" /\ LineKey(ls[i]) \notin InterfaceKeys
       \/ SectionAt(ls, i) = "peer" /\ LineKey(ls[i]) \notin PeerKeys

(***************************************************************************)
(* C10: a key = value line whose key is not in the dispatch table of the   *)
(* current section, or that comes before any section header, makes Decode  *)
(* fail, and the error names the line's 1-based physical line number,      *)
(* which counts the blank, comment and header lines before it.             *)
(***************************************************************************)
C10_UnknownDirectiveLineNumber ==
    [][(AtLine /\ IsRejectedDirective(lines, no + 1)) => FailsCiting(no + 1)]_vars

\* an unknown directive on line 4, after a blank line, a comment and a header
C10_Witness ==
    /\ DecodeFailed
    /\ err.kind = "unknown directive"
    /\ no = 3
    /\ err.line = 4
    /\ \E i, j, k \in 1..3 :
          /\ TrimSpace(lines[i]) = <<>>
          /\ lines[j] = LineComment
          /\ IsHeaderLine(lines[k])

(***************************************************************************)
(* What the claims say about GetUnresolvedEndpoints, read off the text     *)
(***************************************************************************)
\* lines i and j lie in one block: no header line from the one to the other
SameBlock(ls, i, j) ==
    \A k \in (IF i < j THEN i ELSE j)..(IF i < j THEN j ELSE i) : ~IsHeaderLine(ls[k])

\* line i is a key = value line of a [Peer] block with this key
IsPeerLineOf(ls, i, key) == SectionAt(ls, i) = "peer" /\ IsLineOf(ls, i, key)

\* the scan is about to process line gue.lines[gue.no + 1]
AtEndpointLine == gue.pc = "Loop" /\ gue.no < Len(gue.lines)

\* GetUnresolvedEndpoints has returned a map
EndpointsReturned == gue.pc = "Returned" /\ gue.ret.m

(***************************************************************************)
(* C11: every entry K -> e of the map GetUnresolvedEndpoints builds comes  *)
(* from a PublicKey line with value K and an Endpoint line with value e of *)
(* the same [Peer] block: a block with only one of the two adds no entry,  *)
(* and a key is never paired with the endpoint of another block, whatever  *)
(* lies in between.                                                        *)
(***************************************************************************)
C11_PairsComeFromOneBlock ==
    \A K \in DOMAIN gue.unresolvedEndpoints :
        \E i, j \in 1..Len(gue.lines) :
            /\ IsPeerLineOf(gue.lines, i, sPublicKey)
            /\ WgtypesParseKey(LineValue(gue.lines[i])).v = K
            /\ IsPeerLineOf(gue.lines, j, sEndpoint)
            /\ LineValue(gue.lines[j]) = gue.unresolvedEndpoints[K]
            /\ SameBlock(gue.lines, i, j)

\* the scenario of two blocks: the first with the key KeyA and an endpoint,
\* the second with the key KeyB only; the map holds the entry of KeyA alone
C11_Witness ==
    /\ EndpointsReturned
    /\ gue.lines = <<sPeerHeader, KV(sPublicKey, KeyA), KV(sEndpoint, Host1),
                     sPeerHeader, KV(sPublicKey, KeyB)>>
    /\ DOMAIN gue.unresolvedEndpoints = {WgtypesParseKey(KeyA).v}
    /\ gue.unresolvedEndpoints[WgtypesParseKey(KeyA).v] = Host1

\* an Endpoint line lies before line i in the block of line i, after a
\* PublicKey line of the block, with no PublicKey line from it to line i
EndpointAlreadyPaired(ls, i) ==
    \E j \in 1..(i - 1) :
        /\ IsPeerLineOf(ls, j, sEndpoint)
        /\ SameBlock(ls, j, i)
        /\ \E k \in 1..(j - 1) : IsPeerLineOf(ls, k, sPublicKey) /\ SameBlock(ls, k, j)
        /\ \A k \in (j + 1)..(i - 1) : ~IsLineOf(ls, k, sPublicKey)

\* line i is the first Endpoint line of its block
FirstEndpointOfBlock(ls, i) ==
    /\ IsPeerLineOf(ls, i, sEndpoint)
    /\ \A j \in 1..(i - 1) : ~(IsLineOf(ls, j, sEndpoint) /\ SameBlock(ls, j, i))

\* the PublicKey lines before line i in the block of line i
KeyLinesBefore(ls, i) ==
    {k \in 1..(i - 1) : IsPeerLineOf(ls, k, sPublicKey) /\ SameBlock(ls, k, i)}

(***************************************************************************)
(* C16: the pair is committed as soon as the public key and the endpoint   *)
(* of the block are both non-empty, and both are reset: the first Endpoint *)
(* line after a PublicKey line of its block maps that key to its value,    *)
(* and a later Endpoint line of the block neither adds nor changes an      *)
(* entry unless a further PublicKey line has come before it.               *)
(***************************************************************************)
C16_FirstCompletedPairCommits ==
    [][AtEndpointLine =>
         LET ls == gue.lines
             i  == gue.no + 1
         IN  /\ (FirstEndpointOfBlock(ls, i) /\ KeyLinesBefore(ls, i) # {})
                  => LET k == CHOOSE k \in KeyLinesBefore(ls, i) :
                                  \A m \in KeyLinesBefore(ls, i) : m <= k
                         K == WgtypesParseKey(LineValue(ls[k])).v
                     IN  /\ K \in DOMAIN gue'.unresolvedEndpoints
                         /\ gue'.unresolvedEndpoints[K] = LineValue(ls[i])
                         /\ gue'.pubkey = <<>>
                         /\ gue'.endpoint = <<>>
             /\ (IsPeerLineOf(ls, i, sEndpoint) /\ EndpointAlreadyPaired(ls, i))
                  => gue'.unresolvedEndpoints = gue.unresolvedEndpoints]_vars

\* a key followed by two endpoints in one block: the map has the first one
C16_Witness ==
    /\ EndpointsReturned
    /\ gue.lines = <<sPeerHeader, KV(sPublicKey, KeyA), KV(sEndpoint, Host1),
                     KV(sEndpoint, Host2)>>
    /\ gue.unresolvedEndpoints[WgtypesParseKey(KeyA).v] = Host1

\* the public key and the endpoint pending after line i: reset by a [Peer]
\* header, set by the lines of the block, reset when both are non-empty
RECURSIVE PendingAfter(_, _)
PendingAfter(ls, i) ==
    IF i = 0 \/ TrimSpace(ls[i]) = sPeerHeader
    THEN [pubkey |-> <<>>, endpoint |-> <<>>, commit |-> FALSE]
    ELSE LET prev == PendingAfter(ls, i - 1)
             pk0  == IF prev.commit THEN <<>> ELSE prev.pubkey
             ep0  == IF prev.commit THEN <<>> ELSE prev.endpoint
             pk   == IF IsPeerLineOf(ls, i, sPublicKey) THEN LineValue(ls[i]) ELSE pk0
             ep   == IF IsPeerLineOf(ls, i, sEndpoint) THEN LineValue(ls[i]) ELSE ep0
         IN  [pubkey |-> pk, endpoint |-> ep,
              commit |-> /\ SectionAt(ls, i) = "peer"
                         /\ IsDirectiveLine(ls[i])
                         /\ pk # <<>>
                         /\ ep # <<>>]

\* the lines of a text that complete a pair
CommitLines(ls) == {i \in 1..Len(ls) : PendingAfter(ls, i).commit}

\* the key of the pair line i completes
CommitKey(ls, i) == WgtypesParseKey(PendingAfter(ls, i).pubkey).v

\* of every committed key the endpoint of its last commit in text order
LastCommitted(ls) ==
    [K \in {CommitKey(ls, i) : i \in CommitLines(ls)} |->
        LET at == {i \in CommitLines(ls) : CommitKey(ls, i) = K}
        IN  PendingAfter(ls, CHOOSE i \in at : \A j \in at : j <= i).endpoint]

(***************************************************************************)
(* C17: when several [Peer] blocks complete a pair with the same public    *)
(* key, the returned map holds one entry for that key, with the endpoint   *)
(* committed last in text order; the entries of other keys are those of    *)
(* their own last commits.                                                 *)
(***************************************************************************)
C17_LastCommitWins ==
    EndpointsReturned => gue.unresolvedEndpoints = LastCommitted(gue.lines)

\* two blocks with the key KeyA: the map has the endpoint of the second
C17_Witness ==
    /\ EndpointsReturned
    /\ gue.lines = <<sPeerHeader, KV(sPublicKey, KeyA), KV(sEndpoint, Host1),
                     sPeerHeader, KV(sPublicKey, KeyA), KV(sEndpoint, Host2)>>
    /\ DOMAIN gue.unresolvedEndpoints = {WgtypesParseKey(KeyA).v}
    /\ gue.unresolvedEndpoints[WgtypesParseKey(KeyA).v] = Host2

\* the AllowedIPs line the claim gives a peer
AllowedIPsLine(p) ==
    KV(sAllowedIPs,
       Join([i \in 1..Len(p.AllowedIPs) |-> FormatIPNet(p.AllowedIPs[i])], <<",", " ">>))

\* the PersistentKeepalive lines the claim gives a peer
KeepaliveLines(p) ==
    IF p.PersistentKeepaliveInterval = <<>> THEN {}
    ELSE {KV(sPersistentKeepalive, Itoa(p.PersistentKeepaliveInterval[1][1]))}

\* a Config of the claim: a private key, and peers with a public key, allowed
\* IPs and a keepalive only
HasKeyedPeers(c) ==
    /\ c.PrivateKey # <<>>
    /\ c.Peers # <<>>
    /\ \A i \in 1..Len(c.Peers) :
          /\ c.Peers[i].PublicKey # ZeroKey
          /\ c.Peers[i].PresharedKey = <<>>
          /\ c.Peers[i].Endpoint = <<>>

(***************************************************************************)
(* C12: peer fields round-trip: for a Config whose peers have a public     *)
(* key, AllowedIPs of any length (zero included) and a keepalive of whole  *)
(* seconds, MarshalText writes AllowedIPs as one comma-space-joined line   *)
(* and the keepalive as PersistentKeepalive = n, and UnmarshalText of that *)
(* text succeeds with the same AllowedIPs in the same order and the same   *)
(* interval.  (Refuted: a peer without AllowedIPs is written as            *)
(* "AllowedIPs = ", which UnmarshalText rejects.)                          *)
(***************************************************************************)
C12_PeerFieldsRoundTrip ==
    (pc = "UnmarshalDone" /\ pass = 2 /\ HasKeyedPeers(first)) =>
        /\ \A i \in 1..Len(first.Peers) :
              \A l \in {AllowedIPsLine(first.Peers[i])} \cup KeepaliveLines(first.Peers[i]) :
                  \E k \in 1..Len(lines) : lines[k] = l
        /\ err.kind = ""
        /\ Len(cfg.Peers) = Len(first.Peers)
        /\ \A i \in 1..Len(first.Peers) :
              /\ cfg.Peers[i].AllowedIPs = first.Peers[i].AllowedIPs
              /\ cfg.Peers[i].PersistentKeepaliveInterval
                    = first.Peers[i].PersistentKeepaliveInterval

\* the [Peer] header lines of a text
PeerHeaderLines(ls) == {k \in 1..Len(ls) : TrimSpace(ls[k]) = sPeerHeader}

\* the line of the i-th [Peer] header of a text
PeerHeaderLine(ls, i) ==
    CHOOSE k \in PeerHeaderLines(ls) :
        Cardinality({j \in PeerHeaderLines(ls) : j <= k}) = i

\* the lines of a key in the block of the i-th [Peer] header
PeerBlockLines(ls, i, key) ==
    {m \in (PeerHeaderLine(ls, i) + 1)..Len(ls) :
        /\ IsPeerLineOf(ls, m, key)
        /\ \A k \in (PeerHeaderLine(ls, i) + 1)..m : TrimSpace(ls[k]) # sPeerHeader}

(***************************************************************************)
(* C13: every Config of a successful Decode has its private key set, and   *)
(* every peer in it has a public key set by a PublicKey line of its own    *)
(* [Peer] block.  (Refuted: UnmarshalText checks neither; a text without   *)
(* PrivateKey line decodes to a Config with a nil key.)                    *)
(***************************************************************************)
C13_KeysAlwaysSet ==
    DecodeSucceeded =>
        /\ cfg.PrivateKey # <<>>
        /\ \A i \in 1..Len(cfg.Peers) : PeerBlockLines(lines, i, sPublicKey) # {}

(***************************************************************************)
(* C14: Decode starts from the same zero state whatever the Config holds:  *)
(* decoding the text of the file into a Config that holds the content of   *)
(* another decode (fields, peers, a disabled or explicit table, also what  *)
(* a failed decode left) succeeds and gives exactly the Config that        *)
(* decoding it into a fresh Config gave.                                   *)
(***************************************************************************)
C14_DecodeDiscardsPriorContent ==
    (pc = "UnmarshalDone" /\ pass = 4) => (err.kind = "" /\ cfg = first)

\* the Config held an explicit table and a hook, left by a decode that
\* failed; the text of the file has an MTU line and neither of them
C14_Witness ==
    /\ pc = "UnmarshalDone"
    /\ pass = 4
    /\ prior.Table # <<0>>
    /\ prior.PreUp # <<>>
    /\ cfg.Table = <<0>>
    /\ cfg.PreUp = <<>>
    /\ cfg.MTU = 1420

\* the public key the block of the i-th [Peer] header gives its peer: that
\* of its last PublicKey line, the zero key when it has none
PeerBlockKey(ls, i) ==
    LET at == PeerBlockLines(ls, i, sPublicKey)
    IN  IF at = {} THEN ZeroKey
        ELSE ParseKey(LineValue(ls[CHOOSE m \in at : \A k \in at : k <= m])).key

\* the block of the i-th [Peer] header has no key = value line
PeerBlockEmpty(ls, i) ==
    \A m \in (PeerHeaderLine(ls, i) + 1)..Len(ls) :
        (IsDirectiveLine(ls[m]) /\ SectionAt(ls, m) = "peer")
            => \E k \in (PeerHeaderLine(ls, i) + 1)..m : TrimSpace(ls[k]) = sPeerHeader

(***************************************************************************)
(* C15: after a successful Decode there is one peer per [Peer] header      *)
(* line, in header order (a header without keys gives an empty peer), and  *)
(* every key = value line of the peer section changes the most recently    *)
(* appended peer only: the earlier peers and the interface fields stay.    *)
(***************************************************************************)
C15_PeersFollowHeaders ==
    /\ [](DecodeSucceeded =>
            /\ Len(cfg.Peers) = Cardinality(PeerHeaderLines(lines))
            /\ \A i \in 1..Len(cfg.Peers) :
                  /\ cfg.Peers[i].PublicKey = PeerBlockKey(lines, i)
                  /\ PeerBlockEmpty(lines, i) => cfg.Peers[i] = ZeroPeer)
    /\ [][(AtLine /\ state = "peer" /\ IsDirectiveLine(lines[no + 1]))
            => /\ Len(cfg'.Peers) = Len(cfg.Peers)
               /\ cfg' = [cfg EXCEPT !.Peers[Len(cfg.Peers)] = cfg'.Peers[Len(cfg.Peers)]]]_vars

\* two headers, the key line after the second: an empty peer, then the
\* peer with the key
C15_Witness ==
    /\ DecodeSucceeded
    /\ pass = 1
    /\ Len(cfg.Peers) = 2
    /\ cfg.Peers[1] = ZeroPeer
    /\ cfg.Peers[2].PublicKey # ZeroKey

\* the values of the lines of a key in the [Interface] section, among the
\* first i lines, in line order
RECURSIVE InterfaceValues(_, _, _)
InterfaceValues(ls, i, key) ==
    IF i = 0 THEN <<>>
    ELSE InterfaceValues(ls, i - 1, key)
            \o (IF SectionAt(ls, i) = "inter" /\ IsLineOf(ls, i, key)
                THEN <<LineValue(ls[i])>> ELSE <<>>)

\* the comma-separated elements of a sequence of values, trimmed, in order
RECURSIVE Elements(_)
Elements(values) ==
    IF values = <<>> THEN <<>>
    ELSE LET parts == Split(Head(values), ",")
         IN  [k \in 1..Len(parts) |-> TrimSpace(parts[k])] \o Elements(Tail(values))

\* the addresses these elements stand for
AddressesOf(elems) ==
    [k \in 1..Len(elems) |->
        [IP |-> ParseCIDR(elems[k]).ip, Ones |-> ParseCIDR(elems[k]).ones]]

\* the IPs these elements stand for
IPsOf(elems) == [k \in 1..Len(elems) |-> ParseIP(elems[k]).ip]

(***************************************************************************)
(* C18: list directives accumulate: after a successful Decode each of      *)
(* PreUp, PostUp, PreDown and PostDown holds the raw values of all lines   *)
(* of that directive in line order, and Address and DNS hold the elements  *)
(* of all their lines in line order, also when lines of other directives   *)
(* lie in between or the [Interface] section is entered again after a      *)
(* [Peer] header.                                                          *)
(***************************************************************************)
C18_ListsAccumulate ==
    DecodeSucceeded =>
        /\ cfg.PreUp = InterfaceValues(lines, Len(lines), sPreUp)
        /\ cfg.PostUp = InterfaceValues(lines, Len(lines), sPostUp)
        /\ cfg.PreDown = InterfaceValues(lines, Len(lines), sPreDown)
        /\ cfg.PostDown = InterfaceValues(lines, Len(lines), sPostDown)
        /\ cfg.Address = AddressesOf(Elements(InterfaceValues(lines, Len(lines), sAddress)))
        /\ cfg.DNS = IPsOf(Elements(InterfaceValues(lines, Len(lines), sDNS)))

\* a DNS line of two servers, a [Peer] header, the [Interface] section
\* again and the DNS line once more: four servers in line order
C18_Witness ==
    /\ DecodeSucceeded
    /\ lines = <<sInterfaceHeader, LineDNSs, sPeerHeader, sInterfaceHeader, LineDNSs>>
    /\ cfg.DNS = <<<<8, 8, 8, 8>>, <<9, 9, 9, 9>>, <<8, 8, 8, 8>>, <<9, 9, 9, 9>>>>
    /\ Len(cfg.Peers) = 1

(***************************************************************************)
(* C19: the sync command matches and synchronises nothing unless it has    *)
(* exactly one argument; with one argument Sync is called exactly once for *)
(* every interface MatchConfig returned and for no other, and a Sync error *)
(* is logged and does not keep Sync from being called for the rest.        *)
(***************************************************************************)
C19_SyncOncePerInterface ==
    /\ Len(sync.args) # 1 =>
          /\ sync.matchCalls = 0
          /\ \A n \in DOMAIN sync.syncCalls : sync.syncCalls[n] = 0
    /\ \A n \in DOMAIN sync.syncCalls :
          /\ sync.syncCalls[n] <= 1
          /\ sync.syncCalls[n] = 1 => n \in sync.returned
    /\ (sync.pc = "Done" /\ Len(sync.args) = 1) =>
          /\ sync.matchCalls = 1
          /\ \A n \in sync.returned : sync.syncCalls[n] = 1

\* two interfaces matched, Sync failed for one of them, both were synced
C19_Witness ==
    /\ sync.pc = "Done"
    /\ Len(sync.args) = 1
    /\ Cardinality(sync.returned) = 2
    /\ sync.logged = 1
    /\ \A n \in sync.returned : sync.syncCalls[n] = 1

(***************************************************************************)
(* C20: PeerStatus invokes Close only on a client that was created: when   *)
(* wgctrl.New fails, the error is returned to the caller and Close is not  *)
(* invoked on the missing client; when it succeeds, Close is invoked       *)
(* exactly once on every return path.  (Refuted: the closure that calls    *)
(* c.Close() is deferred before the error check, with c = nil.)            *)
(***************************************************************************)
C20_CloseOnlyOnCreatedClient ==
    /\ status.closedNil = 0
    /\ (status.newFails /\ status.pc \in {"Returned", "Panicked"}) =>
          /\ status.pc = "Returned"
          /\ status.ret = [peers |-> FALSE, err |-> "new"]
          /\ status.closed = 0
    /\ (~status.newFails /\ status.pc = "Returned") => status.closed = 1

====
